---- MODULE Spec2Model ----
(***************************************************************************)
(* A model of the proxy_service package: BrowserPool (browser_pool.py),    *)
(* CookieManager (cookie_manager.py) and Fetcher (fetcher.py).             *)
(*                                                                         *)
(* Every coroutine runs as an asyncio task.  A task is at one position     *)
(* (pc): an await on the semaphore, the pool lock or the browser engine,   *)
(* or the return of acquire.  The code of one task between two positions   *)
(* is one atomic step, as on the single-threaded event loop.               *)
(***************************************************************************)
EXTENDS Integers, Sequences, FiniteSets, TLC

\* ------------------------------------------------------------------ bounds
\* Tasks calling BrowserPool.acquire / release directly.
NumTasks == 3
\* Largest max_concurrent a pool is constructed with.
MaxSlots == 2
\* Tasks calling Fetcher.fetch.
NumFetchers == 2
\* Longest cookie list handed to CookieManager.save_cookies.
MaxJarLen == 2

\* Clock ticks per second of the PageLoader model's time.
TicksPerSecond == 2
\* The most markers a page text of the model contains.
MaxMarkers == 2

\* The tasks that call acquire and release while stop runs.
NumClients == 2

Tasks == 1..NumTasks
\* The tasks that call Connection.send, and the transactions one connection
\* numbers.
NumSenders == 2
MaxTx == 3

Clients == 1..NumClients
Senders == 1..NumSenders
TxIds == 1..MaxTx
NoTx == 0
\* The holder of _lock while stop runs.
Stopper == NumTasks + NumClients + 1
Starter == Stopper + 1
Fetchers == 1..NumFetchers
NoTask == 0
\* The clock readings of the Fetcher model, and "not measured".
MaxTime == 2
NoTime == -1

\* ------------------------------------------------------------ ProxyConfig
\* A ProxyConfig as acquire sees it: its server (the pool key) and needs_auth.
\* proxy=None is the record with the empty server.
NoProxy == [server |-> "", needs_auth |-> FALSE]
ProxyAuth == [server |-> "http://p1:8080", needs_auth |-> TRUE]
ProxyPlain == [server |-> "http://p1:8080", needs_auth |-> FALSE]
Proxies == {NoProxy, ProxyAuth, ProxyPlain}
\* key = proxy.server if proxy else None
KeyOf(p) == p.server
Keys == {KeyOf(p) : p \in Proxies}

\* A Browser: the n-th one zd.start returned for a key; n = 0 is no browser.
NoBrowser == [key |-> "", n |-> 0]

\* -------------------------------------------------------------------- URLs
\* A URL as urlparse splits it: netloc, and path as path.split("/") gives it.
NoUrl == [netloc |-> "", path |-> <<"">>]
Urls == {[netloc |-> "a.com", path |-> <<"", "x">>],   \* https://a.com/x
         [netloc |-> "", path |-> <<"a.com", "y">>],   \* a.com/y
         [netloc |-> "b.com", path |-> <<"">>]}        \* https://b.com

\* ----------------------------------------------------------------- cookies
\* A cookie dict: its name, and the proxy server behind which the site
\* issued it ("" = direct), standing for the rest of the record.
CookieNames == {"sid", "tok"}
CookiesVia(server) == {[name |-> n, via |-> server] : n \in CookieNames}
SeqsUpTo(S, n) == UNION {[1..k -> S] : k \in 0..n}
JarsVia(server) == SeqsUpTo(CookiesVia(server), MaxJarLen)
\* What cdp.storage.get_cookies can answer for a page of the no-proxy Browser.
FetchSnapshots == {<<>>, <<[name |-> "sid", via |-> ""]>>,
                   <<[name |-> "tok", via |-> ""], [name |-> "sid", via |-> ""]>>}
NoOp == [op |-> "none", url |-> NoUrl, proxy |-> "", jar |-> <<>>]
\* get_domain(url): parsed.netloc or parsed.path.split("/")[0]
get_domain(u) == IF u.netloc # "" THEN u.netloc ELSE u.path[1]
Domains == {get_domain(u) : u \in Urls}
\* A domain without an entry in _cookies.
NoEntry == [has |-> FALSE, jar |-> <<>>]
Entry(jar) == [has |-> TRUE, jar |-> jar]

VARIABLES
    max_concurrent,      \* BrowserPool.max_concurrent
    semaphore_value,     \* free slots of BrowserPool._semaphore
    semaphore_waiters,   \* tasks blocked in _semaphore.acquire(), oldest first
    lock,                \* the task holding BrowserPool._lock, or NoTask
    browsers,            \* BrowserPool._browsers: key -> n of its Browser, 0 = no entry
    started,             \* BrowserPool._started
    pc,                  \* each task's position
    proxy,               \* each task's proxy argument
    browser,             \* the Browser each task got from _get_or_create_browser
    raised,              \* the error acquire raised to the task: "none", "start", "open", "auth"
    close_failed,        \* release logged a failed tab.close() for the task
    start_calls,         \* per key, the zd.start calls made
    sessions_created,    \* per key, the zd.start calls that returned a Browser
    handlers,            \* per task, the event types with a handler on the Tab it was opened
    interception,        \* per task, whether the Fetch domain is enabled on its Tab
    paused,              \* per task, the last request the Fetch domain paused on its Tab
    url,                 \* Fetcher.fetch: each task's url argument
    wait_for,            \* Fetcher.fetch: whether the task gave a wait_for selector
    error,               \* Fetcher.fetch: the task's error: "none", "timeout", "nav", "wait", "content", "acquire"; "unsuccessful" once returned
    page_cookies,        \* the cookies _load_cookies sent to the task's page
    read_back,           \* _save_cookies: "none" not run, "failed", "ok" get_cookies answered
    snapshot,            \* _save_cookies: the cookies get_cookies answered
    start_time,          \* Fetcher.fetch: local start_time, as a clock reading
    fetch_elapsed,       \* Fetcher.fetch: the elapsed of its FetchResult (NoTime: none)
    fetch_total,         \* per fetch, the clock at the end of its release, less start_time
    now,                 \* time.time(), in ticks
    cookies,             \* CookieManager._cookies: domain -> its entry (NoEntry: not a key)
    last_op,             \* the latest CookieManager call: op, url, caller's proxy, list passed or returned
    load_pc,             \* PageLoader.load: the position of the call
    load_args,           \* PageLoader.load: timeout, wait_for, cf_config
    elapsed,             \* PageLoader.load: time.time() - start_time, in ticks
    cf_detected,         \* PageLoader.load: local cf_detected
    cf_solved,           \* PageLoader.load: local cf_solved
    cf_retries,          \* PageLoader.load: local cf_retries
    text,                \* _check_page_status: the markers the text it read contains
    pending,             \* the PageLoadResult under construction, html still awaited
    result,              \* the PageLoadResult load returned
    obs,                 \* what the page did during the call (history, for the properties)
    request,             \* fetch_page: each task's request.proxy, once the request is made
    proxy_url,           \* ProxyConfig.parse: the argument of each of two calls
    parsed,              \* ProxyConfig.parse: what each of the two calls returned or raised
    stop_pc,             \* BrowserPool.stop: the position of the call
    stop_todo,           \* stop: the keys its loop has still to visit
    stop_attempted,      \* stop: the keys whose browser.stop() was awaited
    stop_failed,         \* stop: the keys whose browser.stop() raised
    stats_pc,            \* get_stats: "idle", "getlock" or "done"
    start_pc,            \* start: "idle", "getlock", "starting", "done" or "failed"
    mapper,              \* Connection.mapper: the ids of the registered transactions
    tx_state,            \* each Transaction (a future): "none", "pending", "done", "cancelled"
    sent_messages,       \* the ids of the commands written to the websocket, not yet answered
    send_pc,             \* Connection.send: the position of each calling task
    send_tx              \* Connection.send: the transaction id of each calling task

poolVars == <<max_concurrent, semaphore_value, semaphore_waiters, lock, browsers,
              started, pc, proxy, browser, raised, close_failed, start_calls,
              sessions_created, handlers, interception, paused>>
tabVars == <<handlers, interception, paused>>
fetchVars == <<url, wait_for, error, page_cookies, read_back, snapshot, start_time,
               fetch_elapsed, fetch_total>>
stampVars == <<start_time, fetch_elapsed, fetch_total>>
cookieVars == <<cookies, last_op>>
loadVars == <<load_pc, load_args, elapsed, cf_detected, cf_solved, cf_retries, text,
              pending, result, obs>>
serviceVars == <<request>>
parseVars == <<proxy_url, parsed>>
stopVars == <<stop_pc, stop_todo, stop_attempted, stop_failed, stats_pc, start_pc>>
connVars == <<mapper, tx_state, sent_messages, send_pc, send_tx>>
restVars == <<loadVars, serviceVars, parseVars, stopVars, connVars, now>>
vars == <<poolVars, fetchVars, cookieVars, restVars>>

TaskSet == DOMAIN pc

\* Positions at which the task has been admitted by the semaphore and acquire
\* has not returned yet.
InAcquire == {"getlock", "starting", "opening", "auth"}
\* Positions at which the task holds the Tab acquire returned.
HoldsTab == {"acquired", "closing"}

Remove(seq, x) == SelectSeq(seq, LAMBDA y : y # x)

\* ------------------------------------------------------------- BrowserPool
\* No task has a Tab: no handlers, no interception, no paused request.
TabInit(T) ==
    /\ handlers = [t \in T |-> {}]
    /\ interception = [t \in T |-> FALSE]
    /\ paused = [t \in T |-> "none"]

\* The task's frame ends without the Tab being handed on.
DropTab(t) ==
    /\ handlers' = [handlers EXCEPT ![t] = {}]
    /\ interception' = [interception EXCEPT ![t] = FALSE]
    /\ paused' = [paused EXCEPT ![t] = "none"]

\* __init__: Semaphore(max_concurrent), empty _browsers, unlocked _lock.
PoolInit(T) ==
    /\ max_concurrent \in 1..MaxSlots
    /\ semaphore_value = max_concurrent
    /\ semaphore_waiters = <<>>
    /\ lock = NoTask
    /\ browsers = [k \in Keys |-> 0]
    /\ started = FALSE
    /\ pc = [t \in T |-> "idle"]
    /\ proxy = [t \in T |-> NoProxy]
    /\ browser = [t \in T |-> NoBrowser]
    /\ raised = [t \in T |-> "none"]
    /\ close_failed = [t \in T |-> FALSE]
    /\ start_calls = [k \in Keys |-> 0]
    /\ sessions_created = [k \in Keys |-> 0]
    /\ TabInit(T)

\* Fetcher.fetch's locals before its try block.
FetchInit(T) ==
    /\ url = [t \in T |-> NoUrl]
    /\ wait_for = [t \in T |-> FALSE]
    /\ error = [t \in T |-> "none"]
    /\ page_cookies = [t \in T |-> <<>>]
    /\ read_back = [t \in T |-> "none"]
    /\ snapshot = [t \in T |-> <<>>]
    /\ start_time = [t \in T |-> 0]
    /\ fetch_elapsed = [t \in T |-> NoTime]
    /\ fetch_total = [t \in T |-> NoTime]

\* CookieManager.__init__: an empty dict.
CookieInit ==
    /\ cookies = [d \in Domains |-> NoEntry]
    /\ last_op = NoOp

\* No PageLoader.load call has been made.
NoArgs == [timeout |-> 0, wait_for |-> FALSE, enabled |-> FALSE, max_retries |-> 0]
NoResult == [success |-> FALSE, error |-> "unset", msg |-> "", status |-> "unset",
             cf_detected |-> FALSE, cf_solved |-> FALSE, cf_retries |-> 0,
             html |-> "", at |-> 0]
NoObs == [first_solve |-> "none", last_solve |-> "none", later_challenge |-> FALSE,
          only_timeouts |-> TRUE, check_passed |-> FALSE,
          nav_failed |-> FALSE, timeouts |-> 0]
LoadInit ==
    /\ load_pc = "idle"
    /\ load_args = NoArgs
    /\ elapsed = 0
    /\ cf_detected = FALSE
    /\ cf_solved = FALSE
    /\ cf_retries = 0
    /\ text = {}
    /\ pending = NoResult
    /\ result = NoResult
    /\ obs = NoObs

\* A proxy URL as urlparse splits it: scheme, user and password of the
\* userinfo, host, port (0: none) and the path with its query.  given is
\* FALSE for None or "".
NoProxyUrl == [given |-> FALSE, scheme |-> "", username |-> "", password |-> "",
               host |-> "", port |-> 0, path |-> ""]
ProxyUrls ==
    [given : {TRUE}, scheme : {"", "http", "socks5"}, username : {"", "u"},
     password : {"", "pw"}, host : {"", "p1", "P1"}, port : {0, 8080},
     path : {"", "/x?y=1"}]
NoRequest == [made |-> FALSE, proxy |-> NoProxyUrl]
\* No ProxyConfig: parse was not called, or raised ValueError.
NoConfig == [server |-> "", host |-> "", port |-> 0, username |-> "", password |-> "",
             scheme |-> ""]
Unparsed == [outcome |-> "none", config |-> NoConfig]

ServiceInit == request = [t \in Tasks \cup Fetchers |-> NoRequest]

ParseInit ==
    /\ proxy_url = <<NoProxyUrl, NoProxyUrl>>
    /\ parsed = <<Unparsed, Unparsed>>

StopInit ==
    /\ stop_pc = "idle"
    /\ stop_todo = {}
    /\ stop_attempted = {}
    /\ stop_failed = {}
    /\ stats_pc = "idle"
    /\ start_pc = "idle"

ConnInit ==
    /\ mapper = {}
    /\ tx_state = [i \in TxIds |-> "none"]
    /\ sent_messages = {}
    /\ send_pc = [s \in Senders |-> "idle"]
    /\ send_tx = [s \in Senders |-> NoTx]

RestInit == LoadInit /\ ServiceInit /\ ParseInit /\ StopInit /\ ConnInit /\ now = 0

Init == PoolInit(Tasks) /\ FetchInit(Tasks) /\ CookieInit /\ RestInit

\* Mutant: the lookup and zd.start are not guarded by _lock.
EnterGetOrCreate_NoLock(t, p) ==
    IF browsers[KeyOf(p)] # 0
    THEN /\ pc' = [pc EXCEPT ![t] = "opening"]
         /\ browser' = [browser EXCEPT ![t] = [key |-> KeyOf(p), n |-> browsers[KeyOf(p)]]]
         /\ UNCHANGED <<lock, start_calls>>
    ELSE /\ pc' = [pc EXCEPT ![t] = "starting"]
         /\ lock' = t
         /\ start_calls' = [start_calls EXCEPT ![KeyOf(p)] = @ + 1]
         /\ UNCHANGED browser

\* _get_or_create_browser up to its first await, for task t with proxy p:
\* `async with self._lock` waits when the lock is held; with the lock, a key
\* already in _browsers returns its Browser at once (the lock is released in the
\* same step), a key not in it calls zd.start holding the lock.
EnterGetOrCreate(t, p) ==
    IF lock # NoTask
    THEN /\ pc' = [pc EXCEPT ![t] = "getlock"]
         /\ UNCHANGED <<lock, start_calls, browser>>
    ELSE IF browsers[KeyOf(p)] # 0
    THEN /\ pc' = [pc EXCEPT ![t] = "opening"]
         /\ browser' = [browser EXCEPT ![t] = [key |-> KeyOf(p), n |-> browsers[KeyOf(p)]]]
         /\ UNCHANGED <<lock, start_calls>>
    ELSE /\ pc' = [pc EXCEPT ![t] = "starting"]
         /\ lock' = t
         /\ start_calls' = [start_calls EXCEPT ![KeyOf(p)] = @ + 1]
         /\ UNCHANGED browser

\* Mutant: acquire does not wait for the semaphore.
AcquireCall_NoSemaphore(t, p) ==
    /\ pc[t] = "idle"
    /\ proxy' = [proxy EXCEPT ![t] = p]
    /\ semaphore_value' = semaphore_value - 1
    /\ EnterGetOrCreate(t, p)
    /\ UNCHANGED <<max_concurrent, semaphore_waiters, browsers, started, raised,
                   close_failed, sessions_created>>
    /\ UNCHANGED tabVars

\* acquire(proxy): `await self._semaphore.acquire()`.  A free slot and no
\* earlier waiter admits the task at once; otherwise it blocks.
AcquireCall(t, p) ==
    /\ pc[t] = "idle"
    /\ proxy' = [proxy EXCEPT ![t] = p]
    /\ IF semaphore_value > 0 /\ semaphore_waiters = <<>>
       THEN /\ semaphore_value' = semaphore_value - 1
            /\ EnterGetOrCreate(t, p)
            /\ UNCHANGED semaphore_waiters
       ELSE /\ semaphore_waiters' = Append(semaphore_waiters, t)
            /\ pc' = [pc EXCEPT ![t] = "waiting"]
            /\ UNCHANGED <<semaphore_value, lock, start_calls, browser>>
    /\ UNCHANGED <<max_concurrent, browsers, started, raised, close_failed,
                   sessions_created>>
    /\ UNCHANGED tabVars

\* Mutant: a waiter resumes without taking a slot.
SemaphoreResume_NoSlot(t) ==
    /\ pc[t] = "waiting"
    /\ semaphore_waiters # <<>>
    /\ t = Head(semaphore_waiters)
    /\ semaphore_value > 0
    /\ semaphore_waiters' = Tail(semaphore_waiters)
    /\ EnterGetOrCreate(t, proxy[t])
    /\ UNCHANGED <<max_concurrent, semaphore_value, browsers, started, proxy, raised,
                   close_failed, sessions_created>>
    /\ UNCHANGED tabVars

\* The oldest waiter of the semaphore resumes once a slot is free.
SemaphoreResume(t) ==
    /\ pc[t] = "waiting"
    /\ semaphore_waiters # <<>>
    /\ t = Head(semaphore_waiters)
    /\ semaphore_value > 0
    /\ semaphore_value' = semaphore_value - 1
    /\ semaphore_waiters' = Tail(semaphore_waiters)
    /\ EnterGetOrCreate(t, proxy[t])
    /\ UNCHANGED <<max_concurrent, browsers, started, proxy, raised, close_failed,
                   sessions_created>>
    /\ UNCHANGED tabVars

\* A task waiting for _lock gets it.
LockGranted(t) ==
    /\ pc[t] = "getlock"
    /\ lock = NoTask
    /\ EnterGetOrCreate(t, proxy[t])
    /\ UNCHANGED <<max_concurrent, semaphore_value, semaphore_waiters, browsers,
                   started, proxy, raised, close_failed, sessions_created>>
    /\ UNCHANGED tabVars

\* Mutant: the except clause re-raises without releasing the semaphore.
AcquireRaise_NoRelease(t, err) ==
    /\ UNCHANGED semaphore_value
    /\ raised' = [raised EXCEPT ![t] = err]
    /\ pc' = [pc EXCEPT ![t] = "failed"]
    /\ browser' = [browser EXCEPT ![t] = NoBrowser]
    /\ proxy' = [proxy EXCEPT ![t] = NoProxy]

\* `except Exception: self._semaphore.release(); raise` of acquire.
AcquireRaise(t, err) ==
    /\ semaphore_value' = semaphore_value + 1
    /\ raised' = [raised EXCEPT ![t] = err]
    /\ pc' = [pc EXCEPT ![t] = "failed"]
    /\ browser' = [browser EXCEPT ![t] = NoBrowser]
    /\ proxy' = [proxy EXCEPT ![t] = NoProxy]

\* zd.start returned: the Browser is recorded under the key, the lock released.
StartOk(t) ==
    /\ pc[t] = "starting"
    /\ LET k == KeyOf(proxy[t])
           n == sessions_created[k] + 1
       IN /\ sessions_created' = [sessions_created EXCEPT ![k] = n]
          /\ browsers' = [browsers EXCEPT ![k] = n]
          /\ browser' = [browser EXCEPT ![t] = [key |-> k, n |-> n]]
    /\ started' = TRUE
    /\ lock' = NoTask
    /\ pc' = [pc EXCEPT ![t] = "opening"]
    /\ UNCHANGED <<max_concurrent, semaphore_value, semaphore_waiters, proxy, raised,
                   close_failed, start_calls>>
    /\ UNCHANGED tabVars

\* zd.start raised: the lock is released, nothing is recorded, acquire re-raises.
StartFail(t) ==
    /\ pc[t] = "starting"
    /\ lock' = NoTask
    /\ AcquireRaise(t, "start")
    /\ UNCHANGED <<max_concurrent, semaphore_waiters, browsers, started,
                   close_failed, start_calls, sessions_created>>
    /\ UNCHANGED tabVars

\* acquire returns the Tab to its caller; the proxy argument is dropped with
\* the frame.
AcquireReturn(t) ==
    /\ pc' = [pc EXCEPT ![t] = "acquired"]
    /\ proxy' = [proxy EXCEPT ![t] = NoProxy]

\* Mutant: _setup_proxy_auth enables the Fetch domain without having
\* registered its handlers.
OpenOk_NoHandlers(t) ==
    /\ pc[t] = "opening"
    /\ IF proxy[t].needs_auth
       THEN pc' = [pc EXCEPT ![t] = "auth"] /\ UNCHANGED proxy
       ELSE AcquireReturn(t)
    /\ UNCHANGED <<max_concurrent, semaphore_value, semaphore_waiters, lock, browsers,
                   started, browser, raised, close_failed, start_calls,
                   sessions_created>>
    /\ UNCHANGED tabVars

\* browser.get("about:blank", new_tab=True) returned the Tab; a proxy with
\* needs_auth goes on to _setup_proxy_auth, which registers its two handlers
\* with tab.add_handler and then awaits tab.send(cdp.fetch.enable(...)).
OpenOk(t) ==
    /\ pc[t] = "opening"
    /\ IF proxy[t].needs_auth
       THEN /\ pc' = [pc EXCEPT ![t] = "auth"]
            /\ handlers' = [handlers EXCEPT ![t] = {"AuthRequired", "RequestPaused"}]
            /\ UNCHANGED proxy
       ELSE /\ AcquireReturn(t)
            /\ UNCHANGED handlers
    /\ UNCHANGED <<interception, paused>>
    /\ UNCHANGED <<max_concurrent, semaphore_value, semaphore_waiters, lock, browsers,
                   started, browser, raised, close_failed, start_calls,
                   sessions_created>>

OpenFail(t) ==
    /\ pc[t] = "opening"
    /\ AcquireRaise(t, "open")
    /\ UNCHANGED <<max_concurrent, semaphore_waiters, lock, browsers, started,
                   close_failed, start_calls, sessions_created>>
    /\ UNCHANGED tabVars

\* _setup_proxy_auth: tab.send(cdp.fetch.enable(...)) returned.
AuthOk(t) ==
    /\ pc[t] = "auth"
    /\ AcquireReturn(t)
    /\ interception' = [interception EXCEPT ![t] = TRUE]
    /\ UNCHANGED <<handlers, paused>>
    /\ UNCHANGED <<max_concurrent, semaphore_value, semaphore_waiters, lock, browsers,
                   started, browser, raised, close_failed, start_calls,
                   sessions_created>>

AuthFail(t) ==
    /\ pc[t] = "auth"
    /\ AcquireRaise(t, "auth")
    /\ DropTab(t)
    /\ UNCHANGED <<max_concurrent, semaphore_waiters, lock, browsers, started,
                   close_failed, start_calls, sessions_created>>

\* Mutant: the cancelled waiter stays in the semaphore's queue.
CancelWaiting_KeepsWaiter(t) ==
    /\ pc[t] = "waiting"
    /\ pc' = [pc EXCEPT ![t] = "cancelled_waiting"]
    /\ proxy' = [proxy EXCEPT ![t] = NoProxy]
    /\ UNCHANGED <<max_concurrent, semaphore_value, semaphore_waiters, lock, browsers,
                   started, browser, raised, close_failed, start_calls,
                   sessions_created>>
    /\ UNCHANGED tabVars

\* The task is cancelled while blocked in _semaphore.acquire(): the semaphore
\* drops its waiter and CancelledError leaves acquire.
CancelWaiting(t) ==
    /\ pc[t] = "waiting"
    /\ semaphore_waiters' = Remove(semaphore_waiters, t)
    /\ pc' = [pc EXCEPT ![t] = "cancelled_waiting"]
    /\ proxy' = [proxy EXCEPT ![t] = NoProxy]
    /\ UNCHANGED <<max_concurrent, semaphore_value, lock, browsers, started,
                   browser, raised, close_failed, start_calls, sessions_created>>
    /\ UNCHANGED tabVars

\* The task is cancelled inside the try block of acquire.  CancelledError is no
\* Exception, so `except Exception` does not run; `async with` releases _lock.
CancelAdmitted(t) ==
    /\ pc[t] \in InAcquire
    /\ DropTab(t)
    /\ lock' = IF lock = t THEN NoTask ELSE lock
    /\ pc' = [pc EXCEPT ![t] = "cancelled_admitted"]
    /\ proxy' = [proxy EXCEPT ![t] = NoProxy]
    /\ browser' = [browser EXCEPT ![t] = NoBrowser]
    /\ UNCHANGED <<max_concurrent, semaphore_value, semaphore_waiters, browsers,
                   started, raised, close_failed, start_calls,
                   sessions_created>>

\* release(tab): `await tab.close()`.
ReleaseCall(t) ==
    /\ pc[t] = "acquired"
    /\ pc' = [pc EXCEPT ![t] = "closing"]
    /\ UNCHANGED <<max_concurrent, semaphore_value, semaphore_waiters, lock, browsers,
                   started, proxy, browser, raised, close_failed, start_calls,
                   sessions_created>>
    /\ UNCHANGED tabVars

\* Mutant: the semaphore is released after the close, not in a finally block.
ReleaseDone_SkipOnError(t, ok) ==
    /\ pc[t] = "closing"
    /\ DropTab(t)
    /\ semaphore_value' = IF ok THEN semaphore_value + 1 ELSE semaphore_value
    /\ close_failed' = [close_failed EXCEPT ![t] = ~ok]
    /\ pc' = [pc EXCEPT ![t] = "released"]
    /\ browser' = [browser EXCEPT ![t] = NoBrowser]
    /\ proxy' = [proxy EXCEPT ![t] = NoProxy]
    /\ UNCHANGED <<max_concurrent, semaphore_waiters, lock, browsers, started,
                   raised, start_calls, sessions_created>>

\* tab.close() returned (ok) or raised (logged); `finally: _semaphore.release()`.
ReleaseDone(t, ok) ==
    /\ pc[t] = "closing"
    /\ DropTab(t)
    /\ semaphore_value' = semaphore_value + 1
    /\ close_failed' = [close_failed EXCEPT ![t] = ~ok]
    /\ pc' = [pc EXCEPT ![t] = "released"]
    /\ proxy' = [proxy EXCEPT ![t] = NoProxy]
    /\ browser' = [browser EXCEPT ![t] = NoBrowser]
    /\ UNCHANGED <<max_concurrent, semaphore_waiters, lock, browsers, started,
                   raised, start_calls, sessions_created>>

\* A step of the pool leaves Fetcher's and CookieManager's state alone.
NotPool == UNCHANGED <<fetchVars, cookieVars, restVars>>

Next ==
    \/ \E t \in TaskSet, p \in Proxies : AcquireCall(t, p) /\ NotPool
    \/ \E t \in TaskSet : SemaphoreResume(t) /\ NotPool
    \/ \E t \in TaskSet : LockGranted(t) /\ NotPool
    \/ \E t \in TaskSet : StartOk(t) /\ NotPool
    \/ \E t \in TaskSet : StartFail(t) /\ NotPool
    \/ \E t \in TaskSet : OpenOk(t) /\ NotPool
    \/ \E t \in TaskSet : OpenFail(t) /\ NotPool
    \/ \E t \in TaskSet : AuthOk(t) /\ NotPool
    \/ \E t \in TaskSet : AuthFail(t) /\ NotPool
    \/ \E t \in TaskSet : CancelWaiting(t) /\ NotPool
    \/ \E t \in TaskSet : CancelAdmitted(t) /\ NotPool
    \/ \E t \in TaskSet : ReleaseCall(t) /\ NotPool
    \/ \E t \in TaskSet, ok \in BOOLEAN : ReleaseDone(t, ok) /\ NotPool

Spec == Init /\ [][Next]_vars

\* ----------------------------------------------------------- CookieManager
\* get_cookies(url): self._cookies.get(domain, []).copy()
get_cookies(u) == cookies[get_domain(u)].jar

\* Mutant: the saved list is merged into the domain's previous list.
save_cookies_Merge(u, jar) ==
    LET old == cookies[get_domain(u)].jar
        kept == SelectSeq(old, LAMBDA c : \A i \in DOMAIN jar : jar[i] # c)
    IN cookies' = [cookies EXCEPT ![get_domain(u)] = Entry(jar \o kept)]

\* save_cookies(url, cookies): self._cookies[domain] = cookies
save_cookies(u, jar) ==
    cookies' = [cookies EXCEPT ![get_domain(u)] = Entry(jar)]

\* ----------------------------------------------------------------- Fetcher
\* Positions of fetch between acquire's return and the finally block.
FetchBody == {"acquired", "setcookies", "navigating", "waiting_page", "content",
              "readback"}

DropArgs(t) ==
    /\ url' = [url EXCEPT ![t] = NoUrl]
    /\ wait_for' = [wait_for EXCEPT ![t] = FALSE]

\* fetch(url, wait_for, timeout): `tab = await self.browser_pool.acquire()`,
\* with no proxy argument.
FetchCall(t, u, w) ==
    /\ AcquireCall(t, NoProxy)
    /\ url' = [url EXCEPT ![t] = u]
    /\ wait_for' = [wait_for EXCEPT ![t] = w]
    /\ start_time' = [start_time EXCEPT ![t] = now]
    /\ UNCHANGED <<error, page_cookies, read_back, snapshot, cookieVars, fetch_elapsed,
                   fetch_total>>

\* `elapsed = time.time() - start_time`, just before the FetchResult is built.
TakeElapsed(t) ==
    fetch_elapsed' = [fetch_elapsed EXCEPT ![t] = now - start_time[t]]

\* acquire raised an Exception: `except Exception` builds the failed
\* FetchResult; tab is None, so the finally block releases nothing.
FetchAcquireRaised(t) ==
    /\ DropArgs(t)
    /\ error' = [error EXCEPT ![t] = "acquire"]
    /\ TakeElapsed(t)
    /\ UNCHANGED <<page_cookies, read_back, snapshot, cookieVars, start_time, fetch_total>>

\* CancelledError leaves fetch through the finally block; tab is None.
FetchCancelled(t) ==
    /\ DropArgs(t)
    /\ UNCHANGED <<error, page_cookies, read_back, snapshot, cookieVars, stampVars>>

\* `finally: if tab: await self.browser_pool.release(tab)`, with a Tab: release
\* starts and awaits tab.close().
FetchFinally(t) ==
    /\ pc' = [pc EXCEPT ![t] = "closing"]
    /\ DropArgs(t)
    /\ page_cookies' = [page_cookies EXCEPT ![t] = <<>>]
    /\ TakeElapsed(t)

\* Mutant: the except block returns without the finally block's release.
FetchRaise_NoFinally(t, err) ==
    /\ error' = [error EXCEPT ![t] = err]
    /\ pc' = [pc EXCEPT ![t] = "failed"]
    /\ DropArgs(t)
    /\ page_cookies' = [page_cookies EXCEPT ![t] = <<>>]
    /\ TakeElapsed(t)

\* An Exception in the try block after acquire returned: `except Exception`
\* builds the failed FetchResult, then the finally block runs.
FetchRaise(t, err) ==
    /\ error' = [error EXCEPT ![t] = err]
    /\ FetchFinally(t)

\* _load_cookies: get_cookies(url); an empty list returns at once and fetch
\* goes on to tab.get(url), a non-empty one is sent with set_cookies.
LoadCookies(t) ==
    /\ pc[t] = "acquired"
    /\ LET jar == get_cookies(url[t])
       IN /\ page_cookies' = [page_cookies EXCEPT ![t] = jar]
          /\ pc' = [pc EXCEPT ![t] = IF jar = <<>> THEN "navigating" ELSE "setcookies"]
    /\ UNCHANGED <<url, wait_for, error, read_back, snapshot, cookieVars, stampVars>>
    /\ UNCHANGED <<max_concurrent, semaphore_value, semaphore_waiters, lock, browsers,
                   started, proxy, browser, raised, close_failed, start_calls,
                   sessions_created>>
    /\ UNCHANGED tabVars

\* tab.send(cdp.storage.set_cookies(...)) returned or raised (logged);
\* _load_cookies returns and its list is dropped.
SetCookiesDone(t, ok) ==
    /\ pc[t] = "setcookies"
    /\ page_cookies' = [page_cookies EXCEPT ![t] = <<>>]
    /\ pc' = [pc EXCEPT ![t] = "navigating"]
    /\ UNCHANGED <<url, wait_for, error, read_back, snapshot, cookieVars, stampVars>>
    /\ UNCHANGED <<max_concurrent, semaphore_value, semaphore_waiters, lock, browsers,
                   started, proxy, browser, raised, close_failed, start_calls,
                   sessions_created>>
    /\ UNCHANGED tabVars

\* tab.get(url) returned or raised.
NavigateDone(t, ok) ==
    /\ pc[t] = "navigating"
    /\ IF ok
       THEN /\ pc' = [pc EXCEPT ![t] = "waiting_page"]
            /\ UNCHANGED <<url, wait_for, error, page_cookies, fetch_elapsed>>
       ELSE FetchRaise(t, "nav")
    /\ UNCHANGED <<read_back, snapshot, cookieVars, start_time, fetch_total>>
    /\ UNCHANGED <<max_concurrent, semaphore_value, semaphore_waiters, lock, browsers,
                   started, proxy, browser, raised, close_failed, start_calls,
                   sessions_created>>
    /\ UNCHANGED tabVars

\* asyncio.wait_for(...) of step 4 ended: "ok", "timeout" (TimeoutError sets
\* error and fetch goes on) or "raised" (another Exception; _wait_for_selector
\* swallows those of tab.select, so only without wait_for).
WaitOutcomes(t) == IF wait_for[t] THEN {"ok", "timeout"} ELSE {"ok", "timeout", "raised"}
WaitDone(t, o) ==
    /\ pc[t] = "waiting_page"
    /\ o \in WaitOutcomes(t)
    /\ IF o = "raised"
       THEN FetchRaise(t, "wait")
       ELSE /\ pc' = [pc EXCEPT ![t] = "content"]
            /\ error' = [error EXCEPT ![t] = IF o = "timeout" THEN "timeout" ELSE @]
            /\ wait_for' = [wait_for EXCEPT ![t] = FALSE]
            /\ UNCHANGED <<url, page_cookies, fetch_elapsed>>
    /\ UNCHANGED <<read_back, snapshot, cookieVars, start_time, fetch_total>>
    /\ UNCHANGED <<max_concurrent, semaphore_value, semaphore_waiters, lock, browsers,
                   started, proxy, browser, raised, close_failed, start_calls,
                   sessions_created>>
    /\ UNCHANGED tabVars

\* tab.get_content() returned (fetch goes on to _save_cookies) or raised.
ContentDone(t, ok) ==
    /\ pc[t] = "content"
    /\ IF ok
       THEN /\ pc' = [pc EXCEPT ![t] = "readback"]
            /\ UNCHANGED <<url, wait_for, error, page_cookies, fetch_elapsed>>
       ELSE FetchRaise(t, "content")
    /\ UNCHANGED <<read_back, snapshot, cookieVars, start_time, fetch_total>>
    /\ UNCHANGED <<max_concurrent, semaphore_value, semaphore_waiters, lock, browsers,
                   started, proxy, browser, raised, close_failed, start_calls,
                   sessions_created>>
    /\ UNCHANGED tabVars

\* _save_cookies: tab.send(cdp.storage.get_cookies()) answered snap or raised
\* (logged).  `if not cookies: return` skips the save of an empty answer.
\* fetch then returns its FetchResult through the finally block.
ReadBackDone(t, ok, snap) ==
    /\ pc[t] = "readback"
    /\ read_back' = [read_back EXCEPT ![t] = IF ok THEN "ok" ELSE "failed"]
    /\ snapshot' = [snapshot EXCEPT ![t] = IF ok THEN snap ELSE <<>>]
    /\ IF ok /\ snap # <<>>
       THEN save_cookies(url[t], snap)
       ELSE UNCHANGED cookies
    /\ UNCHANGED last_op
    /\ FetchFinally(t)
    /\ UNCHANGED <<error, start_time, fetch_total>>
    /\ UNCHANGED <<max_concurrent, semaphore_value, semaphore_waiters, lock, browsers,
                   started, proxy, browser, raised, close_failed, start_calls,
                   sessions_created>>
    /\ UNCHANGED tabVars

\* release ends and fetch returns its FetchResult (success = error is None on
\* the normal path, False from the except block); its locals are gone.
FetchReleaseDone(t, ok) ==
    /\ ReleaseDone(t, ok)
    /\ read_back' = [read_back EXCEPT ![t] = "none"]
    /\ snapshot' = [snapshot EXCEPT ![t] = <<>>]
    /\ error' = [error EXCEPT ![t] = IF @ = "none" THEN "none" ELSE "unsuccessful"]
    /\ fetch_total' = [fetch_total EXCEPT ![t] = now - start_time[t]]
    /\ UNCHANGED <<url, wait_for, page_cookies, cookieVars, start_time, fetch_elapsed>>

\* A step of Fetcher or CookieManager leaves the rest alone.
Elsewhere == UNCHANGED restVars

FetchNext ==
    \/ \E t \in TaskSet, u \in Urls, w \in BOOLEAN : FetchCall(t, u, w) /\ Elsewhere
    \/ \E t \in TaskSet : SemaphoreResume(t) /\ NotPool
    \/ \E t \in TaskSet : LockGranted(t) /\ NotPool
    \/ \E t \in TaskSet : StartOk(t) /\ NotPool
    \/ \E t \in TaskSet : StartFail(t) /\ FetchAcquireRaised(t) /\ Elsewhere
    \/ \E t \in TaskSet : OpenOk(t) /\ NotPool
    \/ \E t \in TaskSet : OpenFail(t) /\ FetchAcquireRaised(t) /\ Elsewhere
    \/ \E t \in TaskSet : CancelWaiting(t) /\ FetchCancelled(t) /\ Elsewhere
    \/ \E t \in TaskSet : CancelAdmitted(t) /\ FetchCancelled(t) /\ Elsewhere
    \/ \E t \in TaskSet : LoadCookies(t) /\ Elsewhere
    \/ \E t \in TaskSet, ok \in BOOLEAN : SetCookiesDone(t, ok) /\ Elsewhere
    \/ \E t \in TaskSet, ok \in BOOLEAN : NavigateDone(t, ok) /\ Elsewhere
    \/ \E t \in TaskSet, o \in {"ok", "timeout", "raised"} : WaitDone(t, o) /\ Elsewhere
    \/ \E t \in TaskSet, ok \in BOOLEAN : ContentDone(t, ok) /\ Elsewhere
    \/ \E t \in TaskSet, ok \in BOOLEAN, snap \in FetchSnapshots : ReadBackDone(t, ok, snap) /\ Elsewhere
    \/ \E t \in TaskSet, ok \in BOOLEAN : FetchReleaseDone(t, ok) /\ Elsewhere

\* Every Fetcher.fetch call is still to be made.
FetchersInit == PoolInit(Fetchers) /\ FetchInit(Fetchers) /\ CookieInit /\ RestInit

FetchSpec == FetchersInit /\ [][FetchNext]_vars

\* Time passes while the tasks are suspended in their awaits.
Tick ==
    /\ now < MaxTime
    /\ now' = now + 1
    /\ UNCHANGED <<poolVars, fetchVars, cookieVars, loadVars, serviceVars, parseVars,
                   stopVars, connVars>>

\* Fetches under a running clock.
TimedNext == FetchNext \/ Tick

TimedSpec == FetchersInit /\ [][TimedNext]_vars

\* ------------------------------------------------- CookieManager's callers
\* The calls below are made on behalf of a request whose proxy server is p
\* ("" for none); J is a list of cookies a page behind p can hold.  The
\* methods take no proxy argument, so p reaches only the record of the call.

\* await cookie_manager.save_cookies(url, J)
CookieSave(u, p, J) ==
    /\ save_cookies(u, J)
    /\ last_op' = [op |-> "save", url |-> u, proxy |-> p, jar |-> J]
    /\ UNCHANGED <<poolVars, fetchVars>>

\* await cookie_manager.get_cookies(url)
CookieLoad(u, p) ==
    /\ last_op' = [op |-> "load", url |-> u, proxy |-> p, jar |-> get_cookies(u)]
    /\ UNCHANGED <<cookies, poolVars, fetchVars>>

\* await cookie_manager.clear_cookies(url): one domain's entry is popped for a
\* url, every entry for None.
CookieClear(u) ==
    /\ cookies' = IF u # NoUrl
                  THEN [cookies EXCEPT ![get_domain(u)] = NoEntry]
                  ELSE [d \in Domains |-> NoEntry]
    /\ last_op' = [op |-> "clear", url |-> u, proxy |-> "", jar |-> <<>>]
    /\ UNCHANGED <<poolVars, fetchVars>>

CookieNext ==
    \/ \E u \in Urls, p \in Keys : \E J \in JarsVia(p) : CookieSave(u, p, J) /\ Elsewhere
    \/ \E u \in Urls, p \in Keys : CookieLoad(u, p) /\ Elsewhere
    \/ \E u \in Urls \cup {NoUrl} : CookieClear(u) /\ Elsewhere

CookieSpec == FetchersInit /\ [][CookieNext]_vars

\* -------------------------------------------------------------- PageLoader
\* Times are in ticks; an await takes some whole number of ticks, 0 included.
Seconds(n) == n * TicksPerSecond
\* CloudflareConfig defaults and load's default timeout.
max_retries == 3
challenge_timeout == Seconds(15)
check_interval == TicksPerSecond \div 2
timeout_default == Seconds(30)

BLOCKED_TEXTS == <<"Please wait a few minutes and try again.", "Access denied",
                   "You have been blocked">>
QUEUE_TEXTS == <<"To enter the queue", "You are in the queue", "Queue-it">>
\* The first text has U+2019 in the source, written ' here.
UNREACHABLE_TEXTS == <<"This site can't be reached", "ERR_CONNECTION_REFUSED",
                       "ERR_NAME_NOT_RESOLVED", "ERR_CONNECTION_TIMED_OUT">>

\* Page texts, each as the set of marker texts it contains as substrings.
SampleMarkers == {"Access denied", "You have been blocked", "Queue-it",
                  "You are in the queue", "ERR_NAME_NOT_RESOLVED"}
PageTexts == {S \in SUBSET SampleMarkers : Cardinality(S) <= MaxMarkers}

\* `for m in texts: if m in text: return m`; 0 when the loop finds none.
RECURSIVE FirstIn(_, _, _)
FirstIn(texts, txt, i) ==
    IF i > Len(texts) THEN 0
    ELSE IF texts[i] \in txt THEN i
    ELSE FirstIn(texts, txt, i + 1)

\* _check_page_status, given the text tab.evaluate returned or that it raised.
_check_page_status(txt, raised_) ==
    IF raised_ \/ txt = {} THEN <<"ok", "">>
    ELSE IF FirstIn(BLOCKED_TEXTS, txt, 1) # 0
         THEN <<"blocked", BLOCKED_TEXTS[FirstIn(BLOCKED_TEXTS, txt, 1)]>>
    ELSE IF FirstIn(QUEUE_TEXTS, txt, 1) # 0
         THEN <<"queue", QUEUE_TEXTS[FirstIn(QUEUE_TEXTS, txt, 1)]>>
    ELSE IF FirstIn(UNREACHABLE_TEXTS, txt, 1) # 0
         THEN <<"unreachable", UNREACHABLE_TEXTS[FirstIn(UNREACHABLE_TEXTS, txt, 1)]>>
    ELSE <<"ok", "">>

LoadArgs ==
    [timeout : {Seconds(1), timeout_default}, wait_for : BOOLEAN,
     enabled : BOOLEAN, max_retries : {1, max_retries}]

\* Mutant: the result is built without the cf_* arguments (their defaults).
Result_DefaultCf(success, err, msg, status) ==
    [success |-> success, error |-> err, msg |-> msg, status |-> status,
     cf_detected |-> FALSE, cf_solved |-> FALSE, cf_retries |-> 0,
     html |-> "", at |-> 0]

\* PageLoadResult(...) with the locals' current values; html is awaited next.
Result(success, err, msg, status) ==
    [success |-> success, error |-> err, msg |-> msg, status |-> status,
     cf_detected |-> cf_detected, cf_solved |-> cf_solved, cf_retries |-> cf_retries,
     html |-> "", at |-> 0]

\* `return PageLoadResult(..., html=await self._safe_get_content(tab), ...)`
Return(r) ==
    /\ pending' = r
    /\ load_pc' = "content"

\* load(tab, url, wait_for, timeout, cf_config) up to `await tab.get(url)`.
LoadCall(a) ==
    /\ load_pc = "idle"
    /\ load_args' = a
    /\ load_pc' = "nav"
    /\ UNCHANGED <<elapsed, cf_detected, cf_solved, cf_retries, text, pending, result, obs>>

\* Mutant: a tab.get(url) that raised is ignored and the loop starts.
NavDone_IgnoresFailure(ok, d) ==
    /\ load_pc = "nav"
    /\ elapsed' = elapsed + d
    /\ load_pc' = "loop_top"
    /\ obs' = [obs EXCEPT !.nav_failed = ~ok]
    /\ UNCHANGED <<load_args, cf_detected, cf_solved, cf_retries, text, pending, result>>

\* tab.get(url) returned after d ticks, or raised into `except Exception`.
NavDone(ok, d) ==
    /\ load_pc = "nav"
    /\ elapsed' = elapsed + d
    /\ IF ok
       THEN load_pc' = "loop_top" /\ UNCHANGED pending
       ELSE Return(Result(FALSE, "exception", "", "ok"))
    /\ obs' = [obs EXCEPT !.nav_failed = ~ok]
    /\ UNCHANGED <<load_args, cf_detected, cf_solved, cf_retries, text, result>>

\* Mutant: the timeout result is built without its error.
LoopTest_NoError ==
    /\ load_pc = "loop_top"
    /\ IF elapsed < load_args.timeout
       THEN /\ load_pc' = IF load_args.enabled THEN "detect" ELSE "status"
            /\ UNCHANGED pending
       ELSE Return(Result(FALSE, "none", "", "ok"))
    /\ obs' = [obs EXCEPT !.last_solve = "none"]
    /\ UNCHANGED <<load_args, elapsed, cf_detected, cf_solved, cf_retries, text, result>>

\* `while time.time() - start_time < timeout`, then the first await of the
\* iteration, or the timeout result after the loop.
LoopTest ==
    /\ load_pc = "loop_top"
    /\ IF elapsed < load_args.timeout
       THEN /\ load_pc' = IF load_args.enabled THEN "detect" ELSE "status"
            /\ UNCHANGED pending
       ELSE Return(Result(FALSE, "timeout", "", "ok"))
    /\ obs' = [obs EXCEPT !.last_solve = "none"]
    /\ UNCHANGED <<load_args, elapsed, cf_detected, cf_solved, cf_retries, text, result>>

\* cf_is_interactive_challenge_present answered or raised (ignored).
DetectDone(o, d) ==
    /\ load_pc = "detect"
    /\ elapsed' = elapsed + d
    /\ IF o = "challenge"
       THEN /\ cf_detected' = TRUE
            /\ load_pc' = "solve"
            /\ obs' = [obs EXCEPT !.later_challenge = @ \/ obs.first_solve # "none"]
       ELSE /\ load_pc' = "status"
            /\ obs' = [obs EXCEPT !.only_timeouts = FALSE]
            /\ UNCHANGED cf_detected
    /\ UNCHANGED <<load_args, cf_solved, cf_retries, text, pending, result>>

Note(o) ==
    obs' = [obs EXCEPT !.first_solve = IF @ = "none" THEN o ELSE @,
                       !.last_solve = o,
                       !.only_timeouts = @ /\ o = "timeout",
                       !.timeouts = IF o = "timeout" THEN @ + 1 ELSE @]

\* Mutant: a solved challenge falls through to the checks of the same iteration.
SolveDone_FallsThrough(o, d) ==
    /\ load_pc = "solve"
    /\ o = "ok"
    /\ elapsed' = elapsed + d
    /\ cf_solved' = TRUE
    /\ load_pc' = "status"
    /\ Note(o)
    /\ UNCHANGED <<load_args, cf_detected, cf_retries, text, pending, result>>

\* tab.verify_cf returned ("ok"), raised TimeoutError after challenge_timeout
\* ("timeout"), or raised another Exception ("error": caught by the outer
\* handler of step 1, the iteration goes on with step 2).
SolveDone(o, d) ==
    /\ load_pc = "solve"
    /\ elapsed' = elapsed + d
    /\ Note(o)
    /\ CASE o = "ok" ->
              /\ d < challenge_timeout
              /\ cf_solved' = TRUE
              /\ load_pc' = "settle"
              /\ UNCHANGED <<cf_retries, pending>>
         [] o = "timeout" ->
              /\ d = challenge_timeout
              /\ cf_retries' = cf_retries + 1
              /\ IF cf_retries + 1 >= load_args.max_retries
                 THEN Return([Result(FALSE, "cf_failed", "", "ok") EXCEPT
                                 !.cf_detected = TRUE, !.cf_solved = FALSE,
                                 !.cf_retries = cf_retries + 1])
                 ELSE load_pc' = "loop_top" /\ UNCHANGED pending
              /\ UNCHANGED cf_solved
         [] o = "error" ->
              /\ d = 0
              /\ load_pc' = "status"
              /\ UNCHANGED <<cf_solved, cf_retries, pending>>
    /\ UNCHANGED <<load_args, cf_detected, text, result>>

\* `await asyncio.sleep(1); continue` after a solved challenge.
SettleDone ==
    /\ load_pc = "settle"
    /\ elapsed' = elapsed + Seconds(1)
    /\ load_pc' = "loop_top"
    /\ UNCHANGED <<load_args, cf_detected, cf_solved, cf_retries, text, pending, result, obs>>

\* Mutant: the queue texts are looked for before the blocked texts.
StatusDone_QueueFirst(txt, raised_, d) ==
    LET st == IF FirstIn(QUEUE_TEXTS, txt, 1) # 0 /\ ~raised_
              THEN <<"queue", QUEUE_TEXTS[FirstIn(QUEUE_TEXTS, txt, 1)]>>
              ELSE _check_page_status(txt, raised_)
    IN /\ load_pc = "status"
       /\ elapsed' = elapsed + d
       /\ text' = IF raised_ THEN {} ELSE txt
       /\ IF st[1] = "ok"
          THEN load_pc' = "check" /\ UNCHANGED pending
          ELSE Return(Result(FALSE, st[1], st[2], st[1]))
       /\ obs' = [obs EXCEPT !.last_solve = "none"]
       /\ UNCHANGED <<load_args, cf_detected, cf_solved, cf_retries, result>>

\* Step 2: _check_page_status read txt (or its evaluate raised) in d ticks; a
\* status other than "ok" returns the failure of that status.
StatusDone(txt, raised_, d) ==
    LET st == _check_page_status(txt, raised_)
    IN /\ load_pc = "status"
       /\ elapsed' = elapsed + d
       /\ text' = IF raised_ THEN {} ELSE txt
       /\ IF st[1] = "ok"
          THEN load_pc' = "check" /\ UNCHANGED pending
          ELSE Return(Result(FALSE, st[1], st[2], st[1]))
       /\ obs' = [obs EXCEPT !.last_solve = "none"]
       /\ UNCHANGED <<load_args, cf_detected, cf_solved, cf_retries, result>>

\* Step 3: tab.select(wait_for) found the element, or document.readyState is
\* "complete" (found); otherwise, or when the call raised, the loop sleeps.
CheckDone(found, d) ==
    /\ load_pc = "check"
    /\ elapsed' = elapsed + d
    /\ text' = {}
    /\ IF found
       THEN /\ obs' = [obs EXCEPT !.check_passed = TRUE]
            /\ IF load_args.wait_for
               THEN Return(Result(TRUE, "none", "", "ok"))
               ELSE load_pc' = "settle_ready" /\ UNCHANGED pending
       ELSE /\ load_pc' = "sleep"
            /\ UNCHANGED <<pending, obs>>
    /\ UNCHANGED <<load_args, cf_detected, cf_solved, cf_retries, result>>

\* `await asyncio.sleep(0.5)` before the success result without wait_for.
ReadySettleDone ==
    /\ load_pc = "settle_ready"
    /\ elapsed' = elapsed + TicksPerSecond \div 2
    /\ Return(Result(TRUE, "none", "", "ok"))
    /\ UNCHANGED <<load_args, cf_detected, cf_solved, cf_retries, text, result, obs>>

\* `await asyncio.sleep(cf_config.check_interval)` at the end of an iteration.
SleepDone ==
    /\ load_pc = "sleep"
    /\ elapsed' = elapsed + check_interval
    /\ load_pc' = "loop_top"
    /\ UNCHANGED <<load_args, cf_detected, cf_solved, cf_retries, text, pending, result, obs>>

\* Mutant: an exception of get_content reaches load's `except Exception`.
SafeGetContentDone_Raises(ok, d) ==
    /\ load_pc = "content"
    /\ elapsed' = elapsed + d
    /\ result' = IF ok
                 THEN [pending EXCEPT !.html = "page", !.at = elapsed + d]
                 ELSE [pending EXCEPT !.success = FALSE, !.error = "exception",
                                      !.msg = "", !.status = "ok", !.at = elapsed + d]
    /\ pending' = NoResult
    /\ load_pc' = "done"
    /\ UNCHANGED <<load_args, cf_detected, cf_solved, cf_retries, text, obs>>

\* _safe_get_content returned the page's html, or "" when get_content raised;
\* load returns the result.
SafeGetContentDone(ok, d) ==
    /\ load_pc = "content"
    /\ elapsed' = elapsed + d
    /\ result' = [pending EXCEPT !.html = IF ok THEN "page" ELSE "",
                                 !.at = elapsed + d]
    /\ pending' = NoResult
    /\ load_pc' = "done"
    /\ UNCHANGED <<load_args, cf_detected, cf_solved, cf_retries, text, obs>>

\* A step of PageLoader leaves the pool, Fetcher and CookieManager alone.
NotLoad == UNCHANGED <<poolVars, fetchVars, cookieVars, serviceVars, parseVars, stopVars, connVars,
                        now>>

LoadNext ==
    \/ \E a \in LoadArgs : LoadCall(a) /\ NotLoad
    \/ \E ok \in BOOLEAN, d \in {0, TicksPerSecond, load_args.timeout} : NavDone(ok, d) /\ NotLoad
    \/ LoopTest /\ NotLoad
    \/ \E o \in {"challenge", "none", "error"}, d \in {0, 1} : DetectDone(o, d) /\ NotLoad
    \/ \E o \in {"ok", "timeout", "error"}, d \in {0, 1, challenge_timeout - 1, challenge_timeout} :
          SolveDone(o, d) /\ NotLoad
    \/ SettleDone /\ NotLoad
    \/ \E txt \in PageTexts, r \in BOOLEAN, d \in {0, 1} : StatusDone(txt, r, d) /\ NotLoad
    \/ \E found \in BOOLEAN, d \in {0, 1} : CheckDone(found, d) /\ NotLoad
    \/ ReadySettleDone /\ NotLoad
    \/ SleepDone /\ NotLoad
    \/ \E ok \in BOOLEAN, d \in {0, 1} : SafeGetContentDone(ok, d) /\ NotLoad

LoadSpec == FetchersInit /\ [][LoadNext]_vars

\* load with every max_retries from 0 up to the default.
RetryArgs ==
    [timeout : {Seconds(1), timeout_default}, wait_for : BOOLEAN,
     enabled : BOOLEAN, max_retries : 0..max_retries]

RetryNext ==
    \/ \E a \in RetryArgs : LoadCall(a) /\ NotLoad
    \/ \E ok \in BOOLEAN, d \in {0, TicksPerSecond, load_args.timeout} : NavDone(ok, d) /\ NotLoad
    \/ LoopTest /\ NotLoad
    \/ \E o \in {"challenge", "none", "error"}, d \in {0, 1} : DetectDone(o, d) /\ NotLoad
    \/ \E o \in {"ok", "timeout", "error"}, d \in {0, 1, challenge_timeout - 1, challenge_timeout} :
          SolveDone(o, d) /\ NotLoad
    \/ SettleDone /\ NotLoad
    \/ \E txt \in PageTexts, r \in BOOLEAN, d \in {0, 1} : StatusDone(txt, r, d) /\ NotLoad
    \/ \E found \in BOOLEAN, d \in {0, 1} : CheckDone(found, d) /\ NotLoad
    \/ ReadySettleDone /\ NotLoad
    \/ SleepDone /\ NotLoad
    \/ \E ok \in BOOLEAN, d \in {0, 1} : SafeGetContentDone(ok, d) /\ NotLoad

RetrySpec == FetchersInit /\ [][RetryNext]_vars

\* ------------------------------------------------------------- ProxyConfig
\* urlparse(...).hostname is the host in lower case.
Lower(h) == IF h = "P1" THEN "p1" ELSE h

\* Mutant: the server string keeps the userinfo of the URL.
parse_KeepsUserinfo(u) ==
    IF Lower(u.host) = "" \/ u.port = 0
    THEN [outcome |-> "ValueError", config |-> NoConfig]
    ELSE LET scheme == IF u.scheme = "" THEN "http" ELSE u.scheme
         IN [outcome |-> "ok",
             config |-> [server |-> scheme \o "://" \o u.username \o "@" \o Lower(u.host)
                                     \o ":" \o ToString(u.port),
                         host |-> Lower(u.host), port |-> u.port,
                         username |-> u.username, password |-> u.password,
                         scheme |-> scheme]]

\* ProxyConfig.parse(proxy_url): the ValueError or the ProxyConfig.
parse(u) ==
    IF Lower(u.host) = "" \/ u.port = 0
    THEN [outcome |-> "ValueError", config |-> NoConfig]
    ELSE LET scheme == IF u.scheme = "" THEN "http" ELSE u.scheme
         IN [outcome |-> "ok",
             config |-> [server |-> scheme \o "://" \o Lower(u.host) \o ":" \o ToString(u.port),
                         host |-> Lower(u.host), port |-> u.port,
                         username |-> u.username, password |-> u.password,
                         scheme |-> scheme]]

\* ProxyConfig.needs_auth
needs_auth(c) == c.username # "" /\ c.password # ""
\* ProxyConfig.__eq__ and __hash__ (the string that is hashed)
__eq__(a, b) == a.server = b.server
__hash__(a) == <<"hash", a.server>>
\* The BrowserPool's view of a ProxyConfig: its key and needs_auth.
PoolProxy(c) == [server |-> c.server, needs_auth |-> needs_auth(c)]

\* The i-th of two calls ProxyConfig.parse(u).
ParseCall(i, u) ==
    /\ parsed[i].outcome = "none"
    /\ proxy_url' = [proxy_url EXCEPT ![i] = u]
    /\ parsed' = [parsed EXCEPT ![i] = parse(u)]
    /\ UNCHANGED <<poolVars, fetchVars, cookieVars, loadVars, serviceVars, stopVars, connVars,
                   now>>

ParseNext == \E i \in {1, 2}, u \in ProxyUrls : ParseCall(i, u)

ParseSpec == FetchersInit /\ [][ParseNext]_vars

\* ------------------------------------------------------- main.py fetch_page
\* request.proxy values: none, two valid URLs of one server (one with
\* credentials), one without port, one without host.
ValidUrl == [given |-> TRUE, scheme |-> "http", username |-> "", password |-> "",
             host |-> "p1", port |-> 8080, path |-> ""]
RequestProxies ==
    {NoProxyUrl, ValidUrl, [ValidUrl EXCEPT !.username = "u", !.password = "pw"],
     [ValidUrl EXCEPT !.port = 0], [ValidUrl EXCEPT !.host = ""]}

\* Mutant: a proxy URL that does not parse is dropped and the request goes on
\* without proxy.
FetchPage_DefaultsOnError(t, purl) ==
    /\ pc[t] = "idle"
    /\ ~request[t].made
    /\ request' = [request EXCEPT ![t] = [made |-> TRUE, proxy |-> purl]]
    /\ pc' = [pc EXCEPT ![t] = "type_error"]
    /\ UNCHANGED <<max_concurrent, semaphore_value, semaphore_waiters, lock, browsers,
                   started, proxy, browser, raised, close_failed, start_calls,
                   sessions_created>>
    /\ UNCHANGED <<fetchVars, cookieVars, loadVars, parseVars, stopVars, connVars, now>>
    /\ UNCHANGED tabVars

\* fetch_page(request) with request.proxy = purl.  ProxyConfig.parse raising
\* ValueError ends the request with HTTPException(400).  Otherwise fetch_page
\* calls fetcher.fetch(url=, wait_for=, timeout=, proxy=proxy_config):
\* Fetcher.fetch has no parameter proxy, so the call raises TypeError before
\* any statement of fetch runs.
FetchPage(t, purl) ==
    /\ pc[t] = "idle"
    /\ ~request[t].made
    /\ request' = [request EXCEPT ![t] = [made |-> TRUE, proxy |-> purl]]
    /\ pc' = [pc EXCEPT ![t] =
                 IF purl.given /\ parse(purl).outcome = "ValueError"
                 THEN "rejected" ELSE "type_error"]
    /\ UNCHANGED <<max_concurrent, semaphore_value, semaphore_waiters, lock, browsers,
                   started, proxy, browser, raised, close_failed, start_calls,
                   sessions_created>>
    /\ UNCHANGED <<fetchVars, cookieVars, loadVars, parseVars, stopVars, connVars, now>>
    /\ UNCHANGED tabVars

\* lifespan before the first request: BrowserPool(...), Fetcher(...), and
\* `await browser_pool.start()`, which put the no-proxy Browser in _browsers.
ServiceStart ==
    /\ max_concurrent \in 1..MaxSlots
    /\ semaphore_value = max_concurrent
    /\ semaphore_waiters = <<>>
    /\ lock = NoTask
    /\ browsers = [k \in Keys |-> IF k = KeyOf(NoProxy) THEN 1 ELSE 0]
    /\ started = TRUE
    /\ pc = [t \in Fetchers |-> "idle"]
    /\ proxy = [t \in Fetchers |-> NoProxy]
    /\ browser = [t \in Fetchers |-> NoBrowser]
    /\ raised = [t \in Fetchers |-> "none"]
    /\ close_failed = [t \in Fetchers |-> FALSE]
    /\ start_calls = [k \in Keys |-> IF k = KeyOf(NoProxy) THEN 1 ELSE 0]
    /\ sessions_created = [k \in Keys |-> IF k = KeyOf(NoProxy) THEN 1 ELSE 0]
    /\ TabInit(Fetchers)
    /\ FetchInit(Fetchers)
    /\ CookieInit
    /\ RestInit

\* The page the service's fetches ask for; its requests differ in their proxy.
ServiceUrl == [netloc |-> "a.com", path |-> <<"", "x">>]

\* The service: requests to fetch_page, and calls of Fetcher.fetch. fetch
\* passes no proxy to acquire and the no-proxy Browser is there from the start,
\* so _get_or_create_browser returns it without waiting and without zd.start.
ServiceNext ==
    \/ \E t \in TaskSet, purl \in RequestProxies : FetchPage(t, purl)
    \/ \E t \in TaskSet, w \in BOOLEAN : FetchCall(t, ServiceUrl, w) /\ Elsewhere
    \/ \E t \in TaskSet : SemaphoreResume(t) /\ NotPool
    \/ \E t \in TaskSet : OpenOk(t) /\ NotPool
    \/ \E t \in TaskSet : OpenFail(t) /\ FetchAcquireRaised(t) /\ Elsewhere
    \/ \E t \in TaskSet : CancelWaiting(t) /\ FetchCancelled(t) /\ Elsewhere
    \/ \E t \in TaskSet : CancelAdmitted(t) /\ FetchCancelled(t) /\ Elsewhere
    \/ \E t \in TaskSet : LoadCookies(t) /\ Elsewhere
    \/ \E t \in TaskSet, ok \in BOOLEAN : SetCookiesDone(t, ok) /\ Elsewhere
    \/ \E t \in TaskSet, ok \in BOOLEAN : NavigateDone(t, ok) /\ Elsewhere
    \/ \E t \in TaskSet, o \in {"ok", "timeout", "raised"} : WaitDone(t, o) /\ Elsewhere
    \/ \E t \in TaskSet, ok \in BOOLEAN : ContentDone(t, ok) /\ Elsewhere
    \/ \E t \in TaskSet, ok \in BOOLEAN, snap \in FetchSnapshots : ReadBackDone(t, ok, snap) /\ Elsewhere
    \/ \E t \in TaskSet, ok \in BOOLEAN : FetchReleaseDone(t, ok) /\ Elsewhere

ServiceSpec == ServiceStart /\ [][ServiceNext]_vars

\* -------------------------------------------------------- BrowserPool.stop
\* The keys of _browsers.
Tracked == {k \in Keys : browsers[k] # 0}

\* What a step of stop leaves alone besides lock, browsers and started.
NotStop ==
    /\ UNCHANGED <<max_concurrent, semaphore_value, semaphore_waiters, pc, proxy,
                   browser, raised, close_failed, start_calls, sessions_created>>
    /\ UNCHANGED <<fetchVars, cookieVars, loadVars, serviceVars, parseVars, connVars, now>>
    /\ UNCHANGED <<tabVars, stats_pc, start_pc>>

\* `async with self._lock` entered: the loop is about to visit _browsers.
StopEnter ==
    /\ lock' = Stopper
    /\ stop_pc' = "stopping"
    /\ stop_todo' = Tracked
    /\ stop_attempted' = {}
    /\ stop_failed' = {}

\* stop() up to `async with self._lock`, which waits while the lock is held.
\* The service calls it once, when it shuts down.
StopCall ==
    /\ stop_pc = "idle"
    /\ IF lock = NoTask
       THEN StopEnter
       ELSE /\ stop_pc' = "getlock"
            /\ UNCHANGED <<lock, stop_todo, stop_attempted, stop_failed>>
    /\ UNCHANGED <<browsers, started>>
    /\ NotStop

\* stop waiting for _lock gets it.
StopLockGranted ==
    /\ stop_pc = "getlock"
    /\ lock = NoTask
    /\ StopEnter
    /\ UNCHANGED <<browsers, started>>
    /\ NotStop

\* Mutant: an Exception of browser.stop() leaves stop (and its lock) at once.
StopOne_Reraises(k, ok) ==
    /\ stop_pc = "stopping"
    /\ k \in stop_todo
    /\ stop_todo' = stop_todo \ {k}
    /\ stop_attempted' = stop_attempted \cup {k}
    /\ stop_failed' = IF ok THEN stop_failed ELSE stop_failed \cup {k}
    /\ stop_pc' = IF ok THEN "stopping" ELSE "raised"
    /\ lock' = IF ok THEN lock ELSE NoTask
    /\ UNCHANGED <<browsers, started>>
    /\ NotStop

\* One round of the loop: `await browser.stop()` for key k returned, or raised
\* an Exception that is logged.
StopOne(k, ok) ==
    /\ stop_pc = "stopping"
    /\ k \in stop_todo
    /\ stop_todo' = stop_todo \ {k}
    /\ stop_attempted' = stop_attempted \cup {k}
    /\ stop_failed' = IF ok THEN stop_failed ELSE stop_failed \cup {k}
    /\ UNCHANGED <<stop_pc, lock, browsers, started>>
    /\ NotStop

\* Mutant: stop forgets to reset _started.
StopDone_KeepsStarted ==
    /\ stop_pc = "stopping"
    /\ stop_todo = {}
    /\ browsers' = [k \in Keys |-> 0]
    /\ lock' = NoTask
    /\ stop_pc' = "done"
    /\ UNCHANGED <<started, stop_todo, stop_attempted, stop_failed>>
    /\ NotStop

\* After the loop: _browsers.clear(), _started = False; the lock is released
\* and stop returns.
StopDone ==
    /\ stop_pc = "stopping"
    /\ stop_todo = {}
    /\ browsers' = [k \in Keys |-> 0]
    /\ started' = FALSE
    /\ lock' = NoTask
    /\ stop_pc' = "done"
    /\ UNCHANGED <<stop_todo, stop_attempted, stop_failed>>
    /\ NotStop

\* The pool with its clients and calls of stop.
LifecycleInit == PoolInit(Clients) /\ FetchInit(Clients) /\ CookieInit /\ RestInit

LifecycleNext ==
    \/ Next
    \/ StopCall
    \/ StopLockGranted
    \/ \E k \in Keys, ok \in BOOLEAN : StopOne(k, ok)
    \/ StopDone

LifecycleSpec == LifecycleInit /\ [][LifecycleNext]_vars

\* What a step of start leaves alone.
NotStart ==
    /\ UNCHANGED <<max_concurrent, semaphore_value, semaphore_waiters, pc, proxy,
                   browser, raised, close_failed>>
    /\ UNCHANGED <<fetchVars, cookieVars, loadVars, serviceVars, parseVars, connVars, now>>
    /\ UNCHANGED <<tabVars, stop_pc, stop_todo, stop_attempted, stop_failed, stats_pc>>

\* start() inside `async with self._lock` of _get_or_create_browser(None):
\* with a Browser under the key it returns, else it awaits zd.start.
StartEnter ==
    IF browsers[KeyOf(NoProxy)] # 0
    THEN /\ start_pc' = "done"
         /\ UNCHANGED <<lock, start_calls>>
    ELSE /\ start_pc' = "starting"
         /\ lock' = Starter
         /\ start_calls' = [start_calls EXCEPT ![KeyOf(NoProxy)] = @ + 1]

\* start() up to `async with self._lock`, which waits while the lock is held.
\* The service calls it once, when it comes up.
StartCall ==
    /\ start_pc = "idle"
    /\ IF lock = NoTask
       THEN StartEnter
       ELSE /\ start_pc' = "getlock"
            /\ UNCHANGED <<lock, start_calls>>
    /\ UNCHANGED <<browsers, started, sessions_created>>
    /\ NotStart

\* start waiting for _lock gets it.
StartLockGranted ==
    /\ start_pc = "getlock"
    /\ lock = NoTask
    /\ StartEnter
    /\ UNCHANGED <<browsers, started, sessions_created>>
    /\ NotStart

\* zd.start returned to start(): the Browser is recorded, _started set.
StartReturned ==
    /\ start_pc = "starting"
    /\ LET k == KeyOf(NoProxy)
           n == sessions_created[k] + 1
       IN /\ sessions_created' = [sessions_created EXCEPT ![k] = n]
          /\ browsers' = [browsers EXCEPT ![k] = n]
    /\ started' = TRUE
    /\ lock' = NoTask
    /\ start_pc' = "done"
    /\ UNCHANGED start_calls
    /\ NotStart

\* zd.start raised in start(): nothing is recorded, the lock is released.
StartRaised ==
    /\ start_pc = "starting"
    /\ lock' = NoTask
    /\ start_pc' = "failed"
    /\ UNCHANGED <<browsers, started, sessions_created, start_calls>>
    /\ NotStart

\* start, stop and the clients' acquire calls, with and without a proxy.
StartedNext ==
    \/ \E t \in TaskSet, p \in {NoProxy, ProxyPlain} : AcquireCall(t, p) /\ NotPool
    \/ \E t \in TaskSet : SemaphoreResume(t) /\ NotPool
    \/ \E t \in TaskSet : LockGranted(t) /\ NotPool
    \/ \E t \in TaskSet : StartOk(t) /\ NotPool
    \/ \E t \in TaskSet : StartFail(t) /\ NotPool
    \/ \E t \in TaskSet : OpenOk(t) /\ NotPool
    \/ \E t \in TaskSet : OpenFail(t) /\ NotPool
    \/ StopCall
    \/ StopLockGranted
    \/ \E k \in Keys, ok \in BOOLEAN : StopOne(k, ok)
    \/ StopDone
    \/ StartCall
    \/ StartLockGranted
    \/ StartReturned
    \/ StartRaised

StartedSpec == LifecycleInit /\ [][StartedNext]_vars

\* ------------------------------------------------- proxy authentication
\* What a step of a Tab's Fetch domain leaves alone.
NotTab ==
    /\ UNCHANGED <<max_concurrent, semaphore_value, semaphore_waiters, lock, browsers,
                   started, pc, proxy, browser, raised, close_failed, start_calls,
                   sessions_created, handlers, interception>>
    /\ UNCHANGED <<fetchVars, cookieVars, restVars>>

\* The page of the Tab task t holds makes a request; with the Fetch domain
\* enabled the browser pauses it and emits RequestPaused.
PageRequest(t) ==
    /\ pc[t] = "acquired"
    /\ interception[t]
    /\ paused[t] # "paused"
    /\ paused' = [paused EXCEPT ![t] = "paused"]
    /\ NotTab

\* handle_request_paused runs for the event: tab.send(continue_request)
\* returned, or raised an Exception, which the handler logs.
HandleRequestPaused(t, ok) ==
    /\ paused[t] = "paused"
    /\ "RequestPaused" \in handlers[t]
    /\ paused' = [paused EXCEPT ![t] = IF ok THEN "continued" ELSE "failed"]
    /\ NotTab

\* The pool with tasks acquiring Tabs, with and without proxy credentials,
\* and the requests of the pages they hold.
AuthInit == PoolInit(Clients) /\ FetchInit(Clients) /\ CookieInit /\ RestInit

AuthNext ==
    \/ Next
    \/ \E t \in TaskSet : PageRequest(t)
    \/ \E t \in TaskSet, ok \in BOOLEAN : HandleRequestPaused(t, ok)

AuthSpec == AuthInit /\ [][AuthNext]_vars

\* ---------------------------------------------------------- Connection.send
\* The transaction ids one connection has handed out.
Used == {i \in TxIds : tx_state[i] # "none"}

\* What a step of the connection leaves alone.
NotConn == UNCHANGED <<poolVars, fetchVars, cookieVars, loadVars, serviceVars,
                       parseVars, stopVars, now>>

\* send(cdp_obj) up to `await tx`: a Transaction gets the next id, is
\* registered in mapper, and its command is written to the websocket.
SendCall(s) ==
    /\ send_pc[s] = "idle"
    /\ Used # TxIds
    /\ LET id == Cardinality(Used) + 1 IN
        /\ tx_state' = [tx_state EXCEPT ![id] = "pending"]
        /\ mapper' = mapper \cup {id}
        /\ sent_messages' = sent_messages \cup {id}
        /\ send_tx' = [send_tx EXCEPT ![s] = id]
    /\ send_pc' = [send_pc EXCEPT ![s] = "awaiting"]
    /\ NotConn

\* The listener reads the response to command id: a registered transaction is
\* taken out of mapper and completed; a response whose transaction is no longer
\* registered is dropped.
Respond(id) ==
    /\ id \in sent_messages
    /\ sent_messages' = sent_messages \ {id}
    /\ mapper' = mapper \ {id}
    /\ tx_state' = IF id \in mapper /\ tx_state[id] = "pending"
                   THEN [tx_state EXCEPT ![id] = "done"]
                   ELSE tx_state
    /\ UNCHANGED <<send_pc, send_tx>>
    /\ NotConn

\* `await tx` returns the response to the caller.
SendReturn(s) ==
    /\ send_pc[s] = "awaiting"
    /\ tx_state[send_tx[s]] = "done"
    /\ send_pc' = [send_pc EXCEPT ![s] = "returned"]
    /\ UNCHANGED <<mapper, tx_state, sent_messages, send_tx>>
    /\ NotConn

\* Mutant: a cancelled send leaves its transaction registered.
SendCancelled_KeepsTx(s) ==
    /\ send_pc[s] = "awaiting"
    /\ tx_state' = IF tx_state[send_tx[s]] = "pending"
                   THEN [tx_state EXCEPT ![send_tx[s]] = "cancelled"]
                   ELSE tx_state
    /\ send_pc' = [send_pc EXCEPT ![s] = "cancelled"]
    /\ UNCHANGED <<mapper, sent_messages, send_tx>>
    /\ NotConn

\* The task awaiting send is cancelled: the awaited transaction is cancelled,
\* its id is taken out of mapper and CancelledError goes on to the caller.
SendCancelled(s) ==
    /\ send_pc[s] = "awaiting"
    /\ tx_state' = IF tx_state[send_tx[s]] = "pending"
                   THEN [tx_state EXCEPT ![send_tx[s]] = "cancelled"]
                   ELSE tx_state
    /\ mapper' = mapper \ {send_tx[s]}
    /\ send_pc' = [send_pc EXCEPT ![s] = "cancelled"]
    /\ UNCHANGED <<sent_messages, send_tx>>
    /\ NotConn

\* The caller, done with one send, is free to send again.
SendAgain(s) ==
    /\ send_pc[s] \in {"returned", "cancelled"}
    /\ send_pc' = [send_pc EXCEPT ![s] = "idle"]
    /\ send_tx' = [send_tx EXCEPT ![s] = NoTx]
    /\ UNCHANGED <<mapper, tx_state, sent_messages>>
    /\ NotConn

ConnNext ==
    \/ \E s \in Senders : SendCall(s)
    \/ \E id \in TxIds : Respond(id)
    \/ \E s \in Senders : SendReturn(s)
    \/ \E s \in Senders : SendCancelled(s)
    \/ \E s \in Senders : SendAgain(s)

ConnSpec == FetchersInit /\ [][ConnNext]_vars

\* ------------------------------------------------- locks and completion

\* get_stats leaves everything but its own position alone.
NotStats ==
    /\ UNCHANGED <<poolVars, fetchVars, cookieVars, loadVars, serviceVars, parseVars,
                   connVars, now>>
    /\ UNCHANGED <<stop_pc, stop_todo, stop_attempted, stop_failed, start_pc>>

\* get_stats(): `async with self._lock` waits while the lock is held; the
\* dict is built without an await, so the lock is free again when it returns.
StatsCall ==
    /\ stats_pc = "idle"
    /\ stats_pc' = IF lock = NoTask THEN "done" ELSE "getlock"
    /\ NotStats

\* get_stats waiting for _lock gets it, builds the dict and returns.
StatsLockGranted ==
    /\ stats_pc = "getlock"
    /\ lock = NoTask
    /\ stats_pc' = "done"
    /\ NotStats

\* Positions at which a fetch or acquire is not running: not called yet, or
\* it has returned, raised or been cancelled.
NotRunning == {"idle", "released", "failed", "cancelled_waiting", "cancelled_admitted"}

\* The steps of a running fetch of task t that stand for a returning call
\* of the browser engine or for a grant of the semaphore or of _lock.
FetchStep(t) ==
    \/ SemaphoreResume(t) /\ NotPool
    \/ LockGranted(t) /\ NotPool
    \/ StartOk(t) /\ NotPool
    \/ StartFail(t) /\ FetchAcquireRaised(t) /\ Elsewhere
    \/ OpenOk(t) /\ NotPool
    \/ OpenFail(t) /\ FetchAcquireRaised(t) /\ Elsewhere
    \/ LoadCookies(t) /\ Elsewhere
    \/ \E ok \in BOOLEAN : SetCookiesDone(t, ok) /\ Elsewhere
    \/ \E ok \in BOOLEAN : NavigateDone(t, ok) /\ Elsewhere
    \/ \E o \in {"ok", "timeout", "raised"} : WaitDone(t, o) /\ Elsewhere
    \/ \E ok \in BOOLEAN : ContentDone(t, ok) /\ Elsewhere
    \/ \E ok \in BOOLEAN, snap \in FetchSnapshots : ReadBackDone(t, ok, snap) /\ Elsewhere
    \/ \E ok \in BOOLEAN : FetchReleaseDone(t, ok) /\ Elsewhere

\* The steps of a running stop.
StopStep ==
    \/ StopLockGranted
    \/ \E k \in Keys, ok \in BOOLEAN : StopOne(k, ok)
    \/ StopDone

\* Fetches, one stop, one get_stats and clear_cookies run concurrently.
LiveNext ==
    \/ \E t \in TaskSet, w \in BOOLEAN : FetchCall(t, ServiceUrl, w) /\ Elsewhere
    \/ \E t \in TaskSet : FetchStep(t)
    \/ \E t \in TaskSet : CancelWaiting(t) /\ FetchCancelled(t) /\ Elsewhere
    \/ \E t \in TaskSet : CancelAdmitted(t) /\ FetchCancelled(t) /\ Elsewhere
    \/ StopCall
    \/ StopStep
    \/ StatsCall
    \/ StatsLockGranted
    \/ CookieClear(NoUrl) /\ Elsewhere

\* The event loop runs every task that can run: an awaited call returns, a
\* free lock or slot is handed to a task waiting for it.
LiveFairness ==
    /\ \A t \in Fetchers : WF_vars(FetchStep(t))
    /\ WF_vars(StopStep)
    /\ WF_vars(StatsLockGranted)

LiveSpec == FetchersInit /\ [][LiveNext]_vars /\ LiveFairness

\* ================================================================ claims
\* Tasks whose page is open: acquire returned a Tab that is not closed yet.
OpenPages == {t \in TaskSet : pc[t] \in HoldsTab}
Waiting == {t \in TaskSet : pc[t] = "waiting"}
SeqElems(seq) == {seq[i] : i \in 1..Len(seq)}

\* C1: in every reachable state the tasks holding a Tab that acquire returned
\* (page not yet closed by release) number at most max_concurrent, whatever
\* proxy keys the Tabs belong to.
C1_GlobalPageBound == Cardinality(OpenPages) <= max_concurrent

\* C1 witness: max_concurrent pages are open on Browsers of two different keys
\* and a further acquire is blocked.
C1_Witness ==
    /\ max_concurrent = 2
    /\ \E a, b \in OpenPages :
          /\ a # b
          /\ pc[a] = "acquired" /\ pc[b] = "acquired"
          /\ browser[a].key # browser[b].key
    /\ Waiting # {}

\* C2: a blocked acquire is admitted only by taking one free slot, one waiter
\* per step and the oldest first, the other waiters staying blocked; with a
\* free slot the oldest waiter can resume, with none no waiter can.
C2_AdmittedStep(t) ==
    /\ semaphore_value >= 1
    /\ semaphore_value' = semaphore_value - 1
    /\ t = Head(semaphore_waiters)
    /\ \A u \in TaskSet \ {t} : pc[u] = "waiting" => pc'[u] = "waiting"
C2_ReleaseAdmitsOneWaiter ==
    /\ [](semaphore_waiters # <<>> =>
            (semaphore_value > 0 <=> ENABLED SemaphoreResume(Head(semaphore_waiters))))
    /\ [](\A t \in Waiting :
            (semaphore_value = 0 \/ t # Head(semaphore_waiters))
                => ~ENABLED SemaphoreResume(t))
    /\ [][\A t \in TaskSet :
            (pc[t] = "waiting" /\ pc'[t] \in InAcquire) => C2_AdmittedStep(t)]_vars

\* C2 witness: with one slot, the holder released, one of two blocked acquires
\* was admitted and the other is still blocked.
C2_Witness ==
    /\ max_concurrent = 1
    /\ semaphore_value = 0
    /\ \E a, b, c \in TaskSet :
          /\ pc[a] = "released"
          /\ pc[b] \in InAcquire \cup HoldsTab
          /\ pc[c] = "waiting"

\* C3: per key, at most one zd.start call has returned or is in flight; every
\* task past the lookup holds the one Browser recorded under its key; and
\* unless a start raised or was cancelled, zd.start was called at most once
\* per key.
StartsInFlight(k) ==
    {t \in TaskSet : pc[t] = "starting" /\ KeyOf(proxy[t]) = k}
NoStartAborted ==
    \A t \in TaskSet : raised[t] # "start" /\ pc[t] # "cancelled_admitted"
C3_OneSessionPerKey ==
    /\ \A k \in Keys :
          /\ sessions_created[k] + Cardinality(StartsInFlight(k)) <= 1
          /\ browsers[k] = sessions_created[k]
          /\ NoStartAborted => start_calls[k] <= 1
    /\ \A t \in TaskSet :
          pc[t] \in {"opening", "auth"} \cup HoldsTab =>
              /\ browser[t].n = 1
              /\ browser[t].n = browsers[browser[t].key]

\* C3 witness: two tasks hold pages of the one Browser of the proxy key, a
\* third has already released, and zd.start was called once for that key.
C3_Witness ==
    \E a, b, c \in TaskSet :
       /\ a # b
       /\ pc[a] = "acquired" /\ pc[b] = "acquired" /\ pc[c] = "released"
       /\ browser[a] = [key |-> KeyOf(ProxyAuth), n |-> 1]
       /\ browser[b] = browser[a]
       /\ start_calls[KeyOf(ProxyAuth)] = 1
       /\ start_calls[KeyOf(NoProxy)] = 0

\* C4: the step that ends release, after tab.close() returned or raised, adds
\* exactly one to the semaphore's free slots and raises nothing to the caller.
C4_ReleaseReturnsSlot ==
    [][\A t \in TaskSet :
         (pc[t] = "closing" /\ pc'[t] # "closing") =>
             /\ semaphore_value' = semaphore_value + 1
             /\ pc'[t] = "released"
             /\ raised'[t] = "none"]_vars

\* C4 witness: a release whose tab.close() raised has returned and every slot
\* is free again.
C4_Witness ==
    /\ \E t \in TaskSet : pc[t] = "released" /\ close_failed[t]
    /\ semaphore_value = max_concurrent

\* C5: when acquire raises after admission (zd.start, the page open or the
\* proxy-auth setup failed), the step gives the slot back, re-raises the
\* error and leaves the caller without a Tab; a failed zd.start leaves
\* _browsers unchanged and _lock free.
C5_FailedAcquireReturnsSlot ==
    [][\A t \in TaskSet :
         (pc[t] \in InAcquire /\ pc'[t] = "failed") =>
             /\ semaphore_value' = semaphore_value + 1
             /\ raised'[t] \in {"start", "open", "auth"}
             /\ browser'[t] = NoBrowser
             /\ browsers' = browsers
             /\ pc[t] = "starting" =>
                   (raised'[t] = "start" /\ lock' = NoTask
                      /\ browsers[KeyOf(proxy[t])] = 0)]_vars

\* C5 witness: three acquires failed, one at each step, and every slot is free.
C5_Witness ==
    /\ \E a, b, c \in TaskSet :
          /\ pc[a] = "failed" /\ raised[a] = "start"
          /\ pc[b] = "failed" /\ raised[b] = "open"
          /\ pc[c] = "failed" /\ raised[c] = "auth"
    /\ semaphore_value = max_concurrent

\* C6: cancelling a task blocked on the semaphore leaves the free slots and
\* every other task as they were and takes the task out of the semaphore's
\* queue, whose members are exactly the blocked tasks, so the waiters behind
\* it are admitted as if it had never called.
C6_CancelWhileWaiting ==
    /\ [](SeqElems(semaphore_waiters) = Waiting
           /\ Len(semaphore_waiters) = Cardinality(Waiting))
    /\ [][\A t \in TaskSet :
            (pc[t] = "waiting" /\ pc'[t] = "cancelled_waiting") =>
                /\ semaphore_value' = semaphore_value
                /\ semaphore_waiters' = Remove(semaphore_waiters, t)
                /\ \A u \in TaskSet \ {t} : pc'[u] = pc[u]]_vars

\* C6 witness: with one slot, a blocked acquire was cancelled and a later
\* acquire got the slot the holder released.
C6_Witness ==
    /\ max_concurrent = 1
    /\ \E a, b, c \in TaskSet :
          /\ pc[a] = "released"
          /\ pc[b] = "cancelled_waiting"
          /\ pc[c] = "acquired"

\* ------------------------------------------------------------------ C7
\* No fetch of the set is in flight: each was never called, returned its
\* FetchResult, or was cancelled before the semaphore admitted it.
C7_Returned ==
    \A t \in TaskSet : pc[t] \in {"idle", "released", "failed", "cancelled_waiting"}

C7_ReleaseStep(t) ==
    /\ pc[t] \in FetchBody => pc'[t] \in FetchBody \cup {"closing"}
    /\ pc[t] = "closing" => pc'[t] \in {"closing", "released"}
    /\ (pc'[t] = "released" /\ pc[t] # "released")
          => pc[t] = "closing" /\ semaphore_value' = semaphore_value + 1
    /\ pc[t] = "released" => pc'[t] = "released"

\* C7: a fetch that holds a Tab leaves its try block only into the release of
\* that Tab, whichever step raised; the release returns one slot, once, and
\* the fetch ends only after it; when every fetch has returned, all
\* max_concurrent slots are free.
C7_FetchReleasesOnce ==
    /\ [](C7_Returned => semaphore_value = max_concurrent)
    /\ [][\A t \in TaskSet : C7_ReleaseStep(t)]_vars

\* Both fetches have returned, one of them unsuccessfully after it held a Tab,
\* and every slot is free.
C7_Witness ==
    /\ \A t \in TaskSet : pc[t] = "released"
    /\ \E t \in TaskSet : error[t] = "unsuccessful"
    /\ semaphore_value = max_concurrent
    /\ max_concurrent = MaxSlots

\* ------------------------------------------------------------------ C8
\* The cookies of the domain's stored list that came through proxy server p.
JarOf(store, d, p) == SelectSeq(store[d].jar, LAMBDA c : c.via = p)

\* C8: a load for (domain, proxy P) returns only cookies saved for P, and a
\* save for (domain, Q) leaves the cookies stored for (domain, P) as they were.
C8_JarsIsolatedPerProxy ==
    /\ [](last_op.op = "load"
            => \A i \in DOMAIN last_op.jar : last_op.jar[i].via = last_op.proxy)
    /\ [][last_op'.op = "save"
            => \A p \in Keys \ {last_op'.proxy} :
                  JarOf(cookies', get_domain(last_op'.url), p)
                    = JarOf(cookies, get_domain(last_op'.url), p)]_vars

\* ------------------------------------------------------------------ C9
\* C9: a load that follows a save for the same domain returns the saved list,
\* equal in content and order, whatever the domain held before that save; the
\* save replaces that domain's list and touches no other domain.
C9_SaveLoadRoundTrip ==
    [][/\ (last_op.op = "save" /\ last_op'.op = "load"
            /\ get_domain(last_op'.url) = get_domain(last_op.url))
          => last_op'.jar = last_op.jar
       /\ last_op'.op = "save"
          => /\ cookies'[get_domain(last_op'.url)] = Entry(last_op'.jar)
             /\ \A d \in Domains \ {get_domain(last_op'.url)} : cookies'[d] = cookies[d]
      ]_vars

\* A load returned a two-cookie list in the order tok, sid through a URL
\* without netloc.
C9_Witness ==
    /\ last_op.op = "load"
    /\ last_op.url.netloc = ""
    /\ Len(last_op.jar) = 2
    /\ last_op.jar[1].name = "tok"
    /\ last_op.jar[2].name = "sid"

\* ------------------------------------------------------------------ C10
C10_LeavesBody(t) == pc[t] \in FetchBody /\ pc'[t] = "closing"

\* C10: a fetch that holds a Tab reads the page's cookies back before it
\* releases the Tab, whatever the load outcome, and after a successful
\* read-back the list stored for the fetch's domain is the snapshot read.
C10_ReadBackWhateverOutcome ==
    [][\A t \in TaskSet :
          C10_LeavesBody(t)
            => /\ read_back'[t] # "none"
               /\ read_back'[t] = "ok"
                    => cookies'[get_domain(url[t])] = Entry(snapshot'[t])
      ]_vars

\* ------------------------------------------------------------------ C12
\* The category of a text's first marker, in the order blocked, queue,
\* unreachable; "ok" when it contains none.
C12_Category(txt) ==
    IF txt \cap SeqElems(BLOCKED_TEXTS) # {} THEN "blocked"
    ELSE IF txt \cap SeqElems(QUEUE_TEXTS) # {} THEN "queue"
    ELSE IF txt \cap SeqElems(UNREACHABLE_TEXTS) # {} THEN "unreachable"
    ELSE "ok"

C12_Texts(cat) ==
    CASE cat = "blocked" -> BLOCKED_TEXTS
      [] cat = "queue" -> QUEUE_TEXTS
      [] cat = "unreachable" -> UNREACHABLE_TEXTS

\* m is the first text of its category's list that txt contains.
C12_FirstMarker(m, txt) ==
    LET l == C12_Texts(C12_Category(txt))
    IN \E i \in DOMAIN l :
          /\ l[i] = m
          /\ m \in txt
          /\ \A j \in 1..(i - 1) : l[j] \notin txt

\* C12: when the status check reads a text with a marker, load goes straight
\* to its return with success False, the status of the first matching category
\* and that marker in the error, whatever cf_detected, cf_solved, cf_retries
\* are; the returned result keeps them, so a result with a status other than
\* "ok" is never a success or another failure.
C12_MarkerEndsLoad ==
    /\ [][(load_pc = "status" /\ load_pc' # "status" /\ C12_Category(text') # "ok")
            => /\ load_pc' = "content"
               /\ ~pending'.success
               /\ pending'.status = C12_Category(text')
               /\ pending'.error = C12_Category(text')
               /\ C12_FirstMarker(pending'.msg, text')
               /\ pending'.cf_detected = cf_detected
               /\ pending'.cf_solved = cf_solved
               /\ pending'.cf_retries = cf_retries]_vars
    /\ [][(load_pc = "content" /\ load_pc' = "done")
            => result' = [pending EXCEPT !.html = result'.html, !.at = result'.at]]_vars
    /\ [](load_pc = "done" /\ result.status # "ok"
            => ~result.success /\ result.error = result.status)

\* A page showing a blocked and a queue marker after a solved challenge was
\* returned as blocked.
C12_Witness ==
    /\ load_pc = "done"
    /\ result.status = "blocked"
    /\ result.msg = "You have been blocked"
    /\ "Queue-it" \in text
    /\ result.cf_solved

\* ------------------------------------------------------------------ C13
\* C13: a load whose first solve attempt succeeded, that detected no challenge
\* afterwards and whose success check passed returns success with
\* cf_detected, cf_solved and cf_retries = 0.
C13_SolvedAtFirstAttempt ==
    [](load_pc = "done" /\ obs.first_solve = "ok" /\ ~obs.later_challenge
          /\ obs.check_passed
        => /\ result.success
           /\ result.error = "none"
           /\ result.status = "ok"
           /\ result.cf_detected
           /\ result.cf_solved
           /\ result.cf_retries = 0)

C13_Witness ==
    /\ load_pc = "done"
    /\ obs.first_solve = "ok"
    /\ ~obs.later_challenge
    /\ obs.check_passed
    /\ result.success
    /\ result.cf_solved
    /\ ~load_args.wait_for

\* ------------------------------------------------------------------ C14
C14_Defaults ==
    /\ load_args.enabled
    /\ load_args.max_retries = max_retries
    /\ load_args.timeout = timeout_default

\* C14: with the default max_retries, challenge_timeout and timeout, a load
\* that found a challenge in every iteration and whose every solve attempt
\* timed out returns the failure of the exhausted retries with cf_retries = 3.
C14_RetriesExhausted ==
    [](load_pc = "done" /\ C14_Defaults /\ obs.only_timeouts
          /\ obs.first_solve = "timeout"
        => /\ ~result.success
           /\ result.error = "cf_failed"
           /\ result.cf_detected
           /\ ~result.cf_solved
           /\ result.cf_retries = max_retries)

\* ------------------------------------------------------------------ C15
\* C15: no challenge solve starts and no success is returned once the time
\* since entry has reached timeout; a load that returns then returns a
\* failure.
C15_DeadlineBoundsLoad ==
    /\ [](load_pc = "solve" => elapsed < load_args.timeout)
    /\ [](load_pc = "done" /\ result.at >= load_args.timeout => ~result.success)

\* ------------------------------------------------------------------ C20
\* C20: after a solve attempt that succeeded, or timed out with retries left,
\* the iteration ends: the next steps are the sleep after a solve and the loop
\* test, never the status check or the success check.
C20_SolveRestartsIteration ==
    /\ [][(load_pc = "solve" /\ load_pc' # "solve")
            => /\ obs'.last_solve = "ok" => load_pc' = "settle"
               /\ (obs'.last_solve = "timeout" /\ cf_retries' < load_args.max_retries)
                    => load_pc' = "loop_top"]_vars
    /\ [][load_pc = "settle" => load_pc' \in {"settle", "loop_top"}]_vars

\* A solve attempt timed out with retries left and the load is back at the
\* loop test.
C20_Witness ==
    /\ load_pc = "loop_top"
    /\ obs.last_solve = "timeout"
    /\ cf_retries = 1
    /\ cf_solved

\* ------------------------------------------------------------------ C17
\* Two proxy URLs that differ at most in userinfo, path and query, and in the
\* case of the host.
C17_SameEndpoint(u, v) ==
    /\ u.scheme = v.scheme
    /\ Lower(u.host) = Lower(v.host)
    /\ u.port = v.port

\* C17: two valid proxy URLs with the same scheme, host and port parse to
\* configs with the same server that are equal and have the same hash, and so
\* the same pool key, whatever their credentials, path and query; configs are
\* equal exactly when their servers are.
C17_IdentityByServer ==
    [](parsed[1].outcome = "ok" /\ parsed[2].outcome = "ok"
        => /\ C17_SameEndpoint(proxy_url[1], proxy_url[2])
              => /\ parsed[1].config.server = parsed[2].config.server
                 /\ __eq__(parsed[1].config, parsed[2].config)
                 /\ __hash__(parsed[1].config) = __hash__(parsed[2].config)
                 /\ KeyOf(PoolProxy(parsed[1].config)) = KeyOf(PoolProxy(parsed[2].config))
           /\ __eq__(parsed[1].config, parsed[2].config)
              <=> parsed[1].config.server = parsed[2].config.server)

\* Two URLs of one endpoint, one with credentials and a path, were parsed.
C17_Witness ==
    /\ parsed[1].outcome = "ok"
    /\ parsed[2].outcome = "ok"
    /\ C17_SameEndpoint(proxy_url[1], proxy_url[2])
    /\ needs_auth(parsed[1].config)
    /\ ~needs_auth(parsed[2].config)
    /\ proxy_url[1].path # proxy_url[2].path
    /\ __eq__(parsed[1].config, parsed[2].config)

\* ------------------------------------------------------------------ C11
C11_Malformed(purl) == purl.given /\ (purl.host = "" \/ purl.port = 0)

\* The pool's proxy argument for a request's proxy URL.
C11_ProxyOf(purl) == IF purl.given THEN PoolProxy(parse(purl).config) ELSE NoProxy

\* C11: a fetch request that is not rejected starts with acquire for its
\* proxy and gets its Tab from the Browser of that proxy's key; navigation
\* starts only after the domain's cookies were loaded, and the Tab is released
\* only after the cookie save.
C11_FetchStepsInOrder ==
    [][\A t \in TaskSet :
          /\ (~request[t].made /\ request'[t].made /\ ~C11_Malformed(request'[t].proxy))
                => /\ pc'[t] \in {"waiting"} \cup InAcquire
                   /\ proxy'[t] = C11_ProxyOf(request'[t].proxy)
          /\ (request[t].made /\ pc[t] # "acquired" /\ pc'[t] = "acquired")
                => browser'[t].key = KeyOf(C11_ProxyOf(request[t].proxy))
          /\ (pc[t] # "navigating" /\ pc'[t] = "navigating")
                => pc[t] \in {"acquired", "setcookies"}
          /\ (pc[t] # "closing" /\ pc'[t] = "closing") => pc[t] = "readback"
      ]_vars

\* ------------------------------------------------------------------ C16
C16_Untouched ==
    UNCHANGED <<semaphore_value, semaphore_waiters, lock, browsers, started,
                start_calls, sessions_created, cookies, last_op, parsed>>

\* C16: a request whose proxy URL lacks host or port ends rejected in its
\* first step, which takes no slot, starts no Browser, reads and writes no
\* cookies and leaves the task without ProxyConfig; the request never goes
\* further.
C16_MalformedProxyRejected ==
    /\ [][\A t \in TaskSet :
            (~request[t].made /\ request'[t].made /\ C11_Malformed(request'[t].proxy))
              => /\ pc'[t] = "rejected"
                 /\ proxy'[t] = NoProxy
                 /\ browser'[t] = NoBrowser
                 /\ C16_Untouched]_vars
    /\ [](\A t \in TaskSet :
            (request[t].made /\ C11_Malformed(request[t].proxy))
              => pc[t] = "rejected" /\ proxy[t] = NoProxy /\ browser[t] = NoBrowser)

\* A request without port was rejected while another fetch holds a Tab and
\* the only slot.
C16_Witness ==
    \E t, o \in TaskSet :
       /\ pc[t] = "rejected"
       /\ request[t].proxy.port = 0
       /\ pc[o] = "navigating"
       /\ semaphore_value = 0

\* ------------------------------------------------------------------ C18
\* C18: stop holds _lock while it runs; its loop visits every key of
\* _browsers, going on after a browser.stop() that raised; stop ends only by
\* returning, and at its return _browsers is empty, _started is False and the
\* lock is free.
C18_StopIsTotal ==
    /\ [](stop_pc \in {"idle", "getlock", "stopping", "done"})
    /\ [](stop_pc = "stopping"
            => /\ lock = Stopper
               /\ stop_todo \cup stop_attempted = Tracked
               /\ stop_failed \subseteq stop_attempted)
    /\ [][(stop_pc = "stopping" /\ stop_pc' # "stopping")
            => /\ stop_pc' = "done"
               /\ stop_attempted' = Tracked
               /\ Tracked' = {}
               /\ ~started'
               /\ lock' = NoTask]_vars

\* stop returned after it visited two Browsers, the stop of one of which
\* raised.
C18_Witness ==
    /\ stop_pc = "done"
    /\ stop_attempted = Keys
    /\ Cardinality(stop_failed) = 1
    /\ Tracked = {}
    /\ ~started

\* ------------------------------------------------------------------ C19
\* C19: a task cancelled while it awaits Connection.send, before the response
\* to its command arrived, has its transaction id taken out of mapper; no
\* cancelled transaction is registered afterwards, and the send ends
\* cancelled, never returned.
C19_CancelledNow(s) ==
    send_pc[s] = "awaiting" /\ send_pc'[s] # "awaiting" /\ tx_state[send_tx[s]] = "pending"

C19_CancelRemovesTx ==
    /\ [](\A id \in mapper : tx_state[id] = "pending")
    /\ [](\A s \in Senders : send_pc[s] = "cancelled" => send_tx[s] \notin mapper)
    /\ [][\A s \in Senders : C19_CancelledNow(s)
            => /\ send_tx[s] \in mapper
               /\ send_tx[s] \notin mapper'
               /\ tx_state'[send_tx[s]] = "cancelled"
               /\ send_pc'[s] = "cancelled"]_vars

\* A send was cancelled before its response arrived, while the other task's
\* transaction is still registered.
C19_Witness ==
    \E s, o \in Senders :
        /\ send_pc[s] = "cancelled"
        /\ tx_state[send_tx[s]] = "cancelled"
        /\ send_tx[s] \in sent_messages
        /\ send_pc[o] = "awaiting"
        /\ send_tx[o] \in mapper
\* ------------------------------------------------------------------ C21
\* The positions of load at which a challenge, status or success check is
\* awaited.
C21_Checks == {"detect", "solve", "settle", "status", "check", "settle_ready", "sleep"}

\* C21: load awaits tab.get once, at its entry, before the loop; a tab.get
\* that raised leads to the failed result carrying the exception, with no
\* check and no second tab.get on the way.
C21_OneNavigationFirst ==
    /\ [][(load_pc # "nav" /\ load_pc' = "nav") => load_pc = "idle"]_vars
    /\ [][load_pc = "nav"
            => \/ load_pc' \in {"nav", "loop_top"}
               \/ /\ load_pc' = "content"
                  /\ ~pending'.success
                  /\ pending'.error = "exception"]_vars
    /\ [][(load_pc' \in C21_Checks \cup {"loop_top"} /\ load_pc' # load_pc)
            => load_pc \in C21_Checks \cup {"nav", "loop_top"}]_vars
    /\ [][(load_pc \in {"content", "done"}) => (load_pc' \in {"content", "done"})]_vars
    /\ [][load_pc # "idle" => load_pc' # "idle"]_vars
    /\ [](obs.nav_failed
            => /\ load_pc \in {"content", "done"}
               /\ obs = [NoObs EXCEPT !.nav_failed = TRUE]
               /\ LET r == IF load_pc = "done" THEN result ELSE pending
                  IN  /\ ~r.success
                      /\ r.error = "exception"
                      /\ ~r.cf_detected /\ ~r.cf_solved /\ r.cf_retries = 0)

\* load returned the failure of a tab.get that raised.
C21_Witness ==
    /\ load_pc = "done"
    /\ obs.nav_failed
    /\ result.error = "exception"
    /\ ~result.success
\* ------------------------------------------------------------------ C22
\* What load's terminal points put into the error field.
C22_Terminals == {"none", "cf_failed", "blocked", "queue", "unreachable", "timeout",
                  "exception"}

\* C22: every terminal point of load reads the content through
\* _safe_get_content and then returns; whether get_content answered or raised
\* shows in html alone ("" when it raised), every other field of the result is
\* the one the terminal point determined.
C22_ContentFailureOnlyEmptiesHtml ==
    /\ [][load_pc = "content"
            => \/ load_pc' = "content" /\ pending' = pending
               \/ /\ load_pc' = "done"
                  /\ result'.html \in {"", "page"}
                  /\ [result' EXCEPT !.html = "", !.at = 0] = pending]_vars
    /\ [](load_pc = "content"
            => pending.error \in C22_Terminals /\ pending.html = "" /\ pending.at = 0)
    /\ [](load_pc = "done" => result.error \in C22_Terminals)

\* load returned the blocked result of a page whose challenge it had solved,
\* and get_content raised.
C22_Witness ==
    /\ load_pc = "done"
    /\ result.html = ""
    /\ result.status = "blocked"
    /\ result.error = "blocked"
    /\ result.cf_solved
\* ------------------------------------------------------------------ C23
C23_Both == {"AuthRequired", "RequestPaused"}

\* C23: acquire enables request interception on a Tab only for a proxy with
\* needs_auth, after it registered the AuthRequired and RequestPaused
\* handlers, and returns after that; a Tab returned for another proxy or for
\* none has no handler and no interception.  A request paused on a Tab has its
\* handler registered, and the handler's run, its continue sent or failed,
\* leaves the task where it is.
C23_HandlersBeforeInterception ==
    /\ [](\A t \in TaskSet : interception[t] => handlers[t] = C23_Both)
    /\ [][\A t \in TaskSet :
            (~interception[t] /\ interception'[t])
               => /\ handlers[t] = C23_Both
                  /\ proxy[t].needs_auth
                  /\ pc[t] = "auth" /\ pc'[t] = "acquired"]_vars
    /\ [][\A t \in TaskSet :
            (pc[t] # "acquired" /\ pc'[t] = "acquired")
               => /\ interception'[t] = proxy[t].needs_auth
                  /\ handlers'[t] = IF proxy[t].needs_auth THEN C23_Both ELSE {}]_vars
    /\ [](\A t \in TaskSet :
            pc[t] = "acquired" => (interception[t] <=> handlers[t] = C23_Both))
    /\ [](\A t \in TaskSet :
            paused[t] # "none" => interception[t] /\ "RequestPaused" \in handlers[t])
    /\ [][\A t \in TaskSet :
            (paused[t] = "paused" /\ paused'[t] \in {"continued", "failed"})
               => pc'[t] = pc[t] /\ raised'[t] = raised[t]]_vars

\* On one Tab, got for a proxy with credentials, a continue failed and the task
\* still holds the Tab; the other task holds a Tab without interception.
C23_Witness ==
    \E t, o \in TaskSet :
        /\ pc[t] = "acquired" /\ interception[t] /\ paused[t] = "failed"
        /\ pc[o] = "acquired" /\ ~interception[o] /\ handlers[o] = {}
\* ------------------------------------------------------------------ C24
\* C24: the elapsed of a fetch that released its Tab is the time from the
\* start of the fetch, before acquire, to the end of that release.
C24_ElapsedCoversRelease ==
    \A t \in TaskSet : fetch_total[t] # NoTime => fetch_elapsed[t] = fetch_total[t]
\* ------------------------------------------------------------------ C25
\* Who holds _lock: a task only while it awaits zd.start, stop only while it
\* visits the sessions; get_stats has given it back when it returns.
C25_PoolLockHolders ==
    /\ \A t \in TaskSet : lock = t => pc[t] = "starting"
    /\ lock = Stopper => stop_pc = "stopping"
    /\ lock \in TaskSet \cup {NoTask, Stopper}

\* The steps in which task t enters CookieManager._lock: get_cookies before
\* the navigation and save_cookies after the read-back.
C25_TakesCookieLock(t) ==
    \/ pc[t] = "acquired" /\ pc'[t] \in {"setcookies", "navigating"}
    \/ pc[t] = "readback" /\ pc'[t] # "readback"

\* No task is inside CookieManager._lock while it holds the pool's _lock.
C25_NoTwoLocks ==
    [][\A t \in Fetchers : C25_TakesCookieLock(t) => (lock # t /\ lock' # t)]_vars

\* Every started fetch, stop and get_stats comes to an end.
C25_Completes ==
    /\ \A t \in Fetchers : (pc[t] \notin NotRunning) ~> (pc[t] \in NotRunning)
    /\ (stop_pc \in {"getlock", "stopping"}) ~> (stop_pc = "done")
    /\ (stats_pc = "getlock") ~> (stats_pc = "done")

\* No task is ever cancelled.
C25_NoCancellation ==
    [](\A t \in Fetchers : pc[t] \notin {"cancelled_waiting", "cancelled_admitted"})

\* Without cancellations every started operation comes to an end.
C25_CompletesUncancelled == C25_NoCancellation => C25_Completes

\* C25: no task holds the pool's lock and the cookie store's lock at once, and
\* with every call of the browser engine returning every started fetch,
\* acquire, release, stop, get_stats and cookie operation eventually completes.
C25_LocksAndCompletion ==
    /\ [](C25_PoolLockHolders)
    /\ C25_NoTwoLocks
    /\ C25_Completes
\* ------------------------------------------------------------------ C26
\* C26: the step that cancels a task between the semaphore's admission and
\* acquire's return (waiting for _lock, in zd.start, opening the page or
\* setting up proxy authentication) gives back the slot the task took.
C26_CancelReleasesSlot ==
    [][\A t \in TaskSet :
          (pc[t] \in InAcquire /\ pc'[t] = "cancelled_admitted")
             => semaphore_value' = semaphore_value + 1]_vars
\* ------------------------------------------------------------------ C27
\* C27: whatever start, acquire, stop and failing zd.start calls have run,
\* _started is true exactly when _browsers holds a session.
C27_StartedIffSessions == started <=> Tracked # {}

\* stop has stopped a session and returned; an acquire that came after it
\* holds a Tab of a session created since, and the pool is started again.
C27_Witness ==
    /\ stop_pc = "done"
    /\ stop_attempted # {}
    /\ started
    /\ \E t \in TaskSet : /\ pc[t] = "acquired"
                          /\ browsers[browser[t].key] = browser[t].n
\* ------------------------------------------------------------------ C28
\* C28: the cf_retries of the result load returns lies in 0..max_retries and
\* is the number of verify_cf calls of that load that ended in TimeoutError.
C28_RetriesBounded ==
    load_pc = "done" =>
        /\ result.cf_retries \in 0..load_args.max_retries
        /\ result.cf_retries = obs.timeouts

\* The part of it that is a count: cf_retries is the number of timeouts.
C28_RetriesCounted ==
    load_pc = "done" => result.cf_retries = obs.timeouts

\* The bound for a max_retries of at least 1.
C28_BoundedFromOne ==
    (load_pc = "done" /\ load_args.max_retries >= 1)
        => result.cf_retries \in 0..load_args.max_retries
\* ------------------------------------------------------------------ C29
\* C29: the result load returns is consistent: cf_solved only with
\* cf_detected; success only without an error and with status "ok"; a status
\* other than "ok" only without success; no success only with an error; and
\* load ends with a result whatever call of the engine raised an Exception.
C29_ResultConsistent ==
    load_pc = "done" =>
        /\ result # NoResult
        /\ result.cf_solved => result.cf_detected
        /\ result.success => (result.error = "none" /\ result.status = "ok")
        /\ result.status # "ok" => ~result.success
        /\ ~result.success => result.error # "none"

\* load returned the blocked result after a challenge was solved, and the
\* content extraction for it raised.
C29_Witness ==
    /\ load_pc = "done"
    /\ result.cf_solved
    /\ result.status = "blocked"
    /\ result.html = ""

====
